---- MODULE Spec2Model ----
(***************************************************************************)
(* Model of the pharmacovigilance adverse-event pipeline: the escalation   *)
(* engine, the audit log (SQLite table audit_log), the similarity index    *)
(* (ChromaDB collection adverse_events), the request pipeline              *)
(* process_adverse_event_core, the backfill script and the index reset,    *)
(* the classifier's override gate, the PDF chunk store of rag_service,     *)
(* the lazy creation of the collection, writers and readers on the SQLite  *)
(* write lock, and the pipeline among collaborators that stay silent.      *)
(*                                                                         *)
(* Conventions.                                                            *)
(*  - Probabilities and scores are integers in units of 1/1000, so 0.6 is  *)
(*    600 and 1.0 is 1000.                                                 *)
(*  - Texts are strings; Chars gives the characters of each, so lower()    *)
(*    and the substring test of the keyword scorer are computed.           *)
(*  - json.dumps(x) is the tagged value <<"json", x>>: a column that holds *)
(*    JSON text is not equal to the list it encodes.                       *)
(***************************************************************************)
EXTENDS Integers, Sequences, FiniteSets, TLC

VARIABLES
    auditSchema,   \* which audit_log table the database file holds
    auditLog,      \* rows of audit_log, in rowid order
    index,         \* the ChromaDB collection: report_id -> entry
    req,           \* per worker: the request it runs through the pipeline
    accepted,      \* number of requests received so far
    bf,            \* the backfill script: its position and fetched rows
    now,           \* the wall clock, in seconds
    pdf,           \* the ChromaDB collection pdf_documents: chunk id -> entry
    coll,          \* get_collection: the collection, the handle _collection and each caller
    db,            \* the SQLite file: who holds the write lock, and each writer's call
    run,           \* one run of process_adverse_event_core among collaborators that may stay silent
    call           \* the last direct call of a service function and its result

vars == <<auditSchema, run, db, coll, pdf, auditLog, index, req, accepted, bf, now, call>>

\* ------------------------------------------------------------------ bounds
MaxReports == 2
MaxTopK == 2
MaxWords == 2
Workers == {"w1", "w2"}

\* None where a dict (or a result object) is expected, and the test for it
NoneDict == [none |-> TRUE]
IsNone(d) == "none" \in DOMAIN d

\* report ids are 1..MaxReports; None (or the empty string) as a report id
ReportIds == 1..MaxReports
NoReportId == 0

\* ------------------------------------------------------------ text helpers
UpperChars == <<"A","B","C","D","E","F","G","H","I","J","K","L","M",
                "N","O","P","Q","R","S","T","U","V","W","X","Y","Z">>
LowerChars == <<"a","b","c","d","e","f","g","h","i","j","k","l","m",
                "n","o","p","q","r","s","t","u","v","w","x","y","z">>

\* str.lower() on one character
LowerChar(c) ==
    IF \E i \in 1..Len(UpperChars) : UpperChars[i] = c
    THEN LowerChars[CHOOSE i \in 1..Len(UpperChars) : UpperChars[i] = c]
    ELSE c

\* str.lower()
Lower(text) == [i \in 1..Len(text) |-> LowerChar(text[i])]

\* the Python test: needle in text
Contains(text, needle) ==
    \E i \in 0..(Len(text) - Len(needle)) :
        \A j \in 1..Len(needle) : text[i + j] = needle[j]

RECURSIVE JoinWith(_, _)
\* sep.join(parts)
JoinWith(sep, parts) ==
    IF parts = <<>> THEN <<>>
    ELSE IF Len(parts) = 1 THEN parts[1]
    ELSE parts[1] \o sep \o JoinWith(sep, Tail(parts))

\* json.dumps / json.loads
JsonDumps(x) == <<"json", x>>
JsonLoads(s) == s[2]

Max(a, b) == IF a >= b THEN a ELSE b
Min(a, b) == IF a <= b THEN a ELSE b

\* dict.get(key, default) on a dict modelled as a record
Get(d, key, default) == IF key \in DOMAIN d THEN d[key] ELSE default

\* ------------------------------------------------------------ keyword table
\* SERIOUS_KEYWORDS of the escalation engine, in the order of the dict
SERIOUS_KEYWORDS ==
    << [keyword |-> "death", weight |-> 10], [keyword |-> "died", weight |-> 10],
       [keyword |-> "fatal", weight |-> 10], [keyword |-> "life-threatening", weight |-> 9],
       [keyword |-> "life threatening", weight |-> 9], [keyword |-> "hospitalization", weight |-> 8],
       [keyword |-> "hospitalisation", weight |-> 8], [keyword |-> "hospitalized", weight |-> 8],
       [keyword |-> "hospitalised", weight |-> 8], [keyword |-> "inpatient", weight |-> 7],
       [keyword |-> "disability", weight |-> 8], [keyword |-> "incapacity", weight |-> 8],
       [keyword |-> "congenital anomaly", weight |-> 8], [keyword |-> "birth defect", weight |-> 8],
       [keyword |-> "cancer", weight |-> 7], [keyword |-> "overdose", weight |-> 7],
       [keyword |-> "suicide", weight |-> 9], [keyword |-> "suicidal", weight |-> 8],
       [keyword |-> "cardiac arrest", weight |-> 9], [keyword |-> "respiratory failure", weight |-> 9],
       [keyword |-> "coma", weight |-> 9], [keyword |-> "seizure", weight |-> 7],
       [keyword |-> "anaphylaxis", weight |-> 8], [keyword |-> "anaphylactic", weight |-> 8],
       [keyword |-> "stroke", weight |-> 8], [keyword |-> "myocardial infarction", weight |-> 8],
       [keyword |-> "heart attack", weight |-> 8], [keyword |-> "renal failure", weight |-> 8],
       [keyword |-> "liver failure", weight |-> 8], [keyword |-> "hepatic failure", weight |-> 8],
       [keyword |-> "sepsis", weight |-> 8], [keyword |-> "shock", weight |-> 7],
       [keyword |-> "transplant", weight |-> 7], [keyword |-> "surgery required", weight |-> 7],
       [keyword |-> "surgical intervention", weight |-> 7], [keyword |-> "icu", weight |-> 8],
       [keyword |-> "intensive care", weight |-> 8], [keyword |-> "ventilator", weight |-> 8],
       [keyword |-> "intubation", weight |-> 8], [keyword |-> "resuscitation", weight |-> 9] >>

\* the texts of the model's cases
CaseTexts ==
    {"", "Aspirin", "warfarin", "mild headache", "Patient DIED", "suicide attempt", "Headache", "Rash", "rash"}

\* the characters of a string: of each keyword and of each case text
Chars(s) ==
    CASE s = "death" -> <<"d", "e", "a", "t", "h">>
      [] s = "died" -> <<"d", "i", "e", "d">>
      [] s = "fatal" -> <<"f", "a", "t", "a", "l">>
      [] s = "life-threatening" -> <<"l", "i", "f", "e", "-", "t", "h", "r", "e", "a", "t", "e", "n", "i", "n", "g">>
      [] s = "life threatening" -> <<"l", "i", "f", "e", " ", "t", "h", "r", "e", "a", "t", "e", "n", "i", "n", "g">>
      [] s = "hospitalization" -> <<"h", "o", "s", "p", "i", "t", "a", "l", "i", "z", "a", "t", "i", "o", "n">>
      [] s = "hospitalisation" -> <<"h", "o", "s", "p", "i", "t", "a", "l", "i", "s", "a", "t", "i", "o", "n">>
      [] s = "hospitalized" -> <<"h", "o", "s", "p", "i", "t", "a", "l", "i", "z", "e", "d">>
      [] s = "hospitalised" -> <<"h", "o", "s", "p", "i", "t", "a", "l", "i", "s", "e", "d">>
      [] s = "inpatient" -> <<"i", "n", "p", "a", "t", "i", "e", "n", "t">>
      [] s = "disability" -> <<"d", "i", "s", "a", "b", "i", "l", "i", "t", "y">>
      [] s = "incapacity" -> <<"i", "n", "c", "a", "p", "a", "c", "i", "t", "y">>
      [] s = "congenital anomaly" -> <<"c", "o", "n", "g", "e", "n", "i", "t", "a", "l", " ", "a", "n", "o", "m", "a", "l", "y">>
      [] s = "birth defect" -> <<"b", "i", "r", "t", "h", " ", "d", "e", "f", "e", "c", "t">>
      [] s = "cancer" -> <<"c", "a", "n", "c", "e", "r">>
      [] s = "overdose" -> <<"o", "v", "e", "r", "d", "o", "s", "e">>
      [] s = "suicide" -> <<"s", "u", "i", "c", "i", "d", "e">>
      [] s = "suicidal" -> <<"s", "u", "i", "c", "i", "d", "a", "l">>
      [] s = "cardiac arrest" -> <<"c", "a", "r", "d", "i", "a", "c", " ", "a", "r", "r", "e", "s", "t">>
      [] s = "respiratory failure" -> <<"r", "e", "s", "p", "i", "r", "a", "t", "o", "r", "y", " ", "f", "a", "i", "l", "u", "r", "e">>
      [] s = "coma" -> <<"c", "o", "m", "a">>
      [] s = "seizure" -> <<"s", "e", "i", "z", "u", "r", "e">>
      [] s = "anaphylaxis" -> <<"a", "n", "a", "p", "h", "y", "l", "a", "x", "i", "s">>
      [] s = "anaphylactic" -> <<"a", "n", "a", "p", "h", "y", "l", "a", "c", "t", "i", "c">>
      [] s = "stroke" -> <<"s", "t", "r", "o", "k", "e">>
      [] s = "myocardial infarction" -> <<"m", "y", "o", "c", "a", "r", "d", "i", "a", "l", " ", "i", "n", "f", "a", "r", "c", "t", "i", "o", "n">>
      [] s = "heart attack" -> <<"h", "e", "a", "r", "t", " ", "a", "t", "t", "a", "c", "k">>
      [] s = "renal failure" -> <<"r", "e", "n", "a", "l", " ", "f", "a", "i", "l", "u", "r", "e">>
      [] s = "liver failure" -> <<"l", "i", "v", "e", "r", " ", "f", "a", "i", "l", "u", "r", "e">>
      [] s = "hepatic failure" -> <<"h", "e", "p", "a", "t", "i", "c", " ", "f", "a", "i", "l", "u", "r", "e">>
      [] s = "sepsis" -> <<"s", "e", "p", "s", "i", "s">>
      [] s = "shock" -> <<"s", "h", "o", "c", "k">>
      [] s = "transplant" -> <<"t", "r", "a", "n", "s", "p", "l", "a", "n", "t">>
      [] s = "surgery required" -> <<"s", "u", "r", "g", "e", "r", "y", " ", "r", "e", "q", "u", "i", "r", "e", "d">>
      [] s = "surgical intervention" -> <<"s", "u", "r", "g", "i", "c", "a", "l", " ", "i", "n", "t", "e", "r", "v", "e", "n", "t", "i", "o", "n">>
      [] s = "icu" -> <<"i", "c", "u">>
      [] s = "intensive care" -> <<"i", "n", "t", "e", "n", "s", "i", "v", "e", " ", "c", "a", "r", "e">>
      [] s = "ventilator" -> <<"v", "e", "n", "t", "i", "l", "a", "t", "o", "r">>
      [] s = "intubation" -> <<"i", "n", "t", "u", "b", "a", "t", "i", "o", "n">>
      [] s = "resuscitation" -> <<"r", "e", "s", "u", "s", "c", "i", "t", "a", "t", "i", "o", "n">>
      [] s = "" -> <<>>
      [] s = "Aspirin" -> <<"A", "s", "p", "i", "r", "i", "n">>
      [] s = "warfarin" -> <<"w", "a", "r", "f", "a", "r", "i", "n">>
      [] s = "mild headache" -> <<"m", "i", "l", "d", " ", "h", "e", "a", "d", "a", "c", "h", "e">>
      [] s = "Patient DIED" -> <<"P", "a", "t", "i", "e", "n", "t", " ", "D", "I", "E", "D">>
      [] s = "suicide attempt" -> <<"s", "u", "i", "c", "i", "d", "e", " ", "a", "t", "t", "e", "m", "p", "t">>
      [] s = "Headache" -> <<"H", "e", "a", "d", "a", "c", "h", "e">>
      [] s = "Rash" -> <<"R", "a", "s", "h">>
      [] s = "rash" -> <<"r", "a", "s", "h">>

\* -------------------------------------------------------- escalation engine
\* the escalation threshold moved above the start of the HIGH band
ESCALATION_THRESHOLD_AboveHigh == 600 + 150

ESCALATION_THRESHOLD == 600
\* the two weights of the blend exchanged
KEYWORD_WEIGHT_Swapped == 1000 - 300

KEYWORD_WEIGHT == 300
OVERRIDE_SCORE == 800

RECURSIVE ScanKeywords_LastWins(_, _, _, _)
\* the loop with max_score = score in place of max(max_score, score)
ScanKeywords_LastWins(text_lower, i, triggered, max_score) ==
    IF i > Len(SERIOUS_KEYWORDS) THEN [triggered |-> triggered, max_score |-> max_score]
    ELSE IF Contains(text_lower, Chars(SERIOUS_KEYWORDS[i].keyword))
         THEN ScanKeywords_LastWins(text_lower, i + 1,
                                    Append(triggered, SERIOUS_KEYWORDS[i].keyword),
                                    SERIOUS_KEYWORDS[i].weight)
         ELSE ScanKeywords_LastWins(text_lower, i + 1, triggered, max_score)

RECURSIVE ScanKeywords(_, _, _, _)
\* the loop of calculate_keyword_score over the table, from position i
ScanKeywords(text_lower, i, triggered, max_score) ==
    IF i > Len(SERIOUS_KEYWORDS) THEN [triggered |-> triggered, max_score |-> max_score]
    ELSE IF Contains(text_lower, Chars(SERIOUS_KEYWORDS[i].keyword))
         THEN ScanKeywords(text_lower, i + 1,
                           Append(triggered, SERIOUS_KEYWORDS[i].keyword),
                           Max(max_score, SERIOUS_KEYWORDS[i].weight))
         ELSE ScanKeywords(text_lower, i + 1, triggered, max_score)

\* calculate_keyword_score scanning the text as given, not lowercased
calculate_keyword_score_NoLower(text) ==
    LET r == ScanKeywords(text, 1, <<>>, 0)
    IN  [score |-> IF r.max_score > 0 THEN r.max_score * 100 ELSE 0,
         triggered |-> r.triggered]

calculate_keyword_score(text) ==
    LET r == ScanKeywords(Lower(text), 1, <<>>, 0)
    IN  [score |-> IF r.max_score > 0 THEN r.max_score * 100 ELSE 0,
         triggered |-> r.triggered]

\* determine_risk_level with each boundary value left in the lower band
determine_risk_level_Exclusive(score) ==
    IF score > 850 THEN "CRITICAL"
    ELSE IF score > 700 THEN "HIGH"
    ELSE IF score > 500 THEN "MEDIUM"
    ELSE "LOW"

determine_risk_level(score) ==
    IF score >= 850 THEN "CRITICAL"
    ELSE IF score >= 700 THEN "HIGH"
    ELSE IF score >= 500 THEN "MEDIUM"
    ELSE "LOW"

\* the parts of the explanation text, in order; percentages are f"{x:.1%}"
generate_explanation(result) ==
    <<IF result.should_escalate
      THEN <<"ESCALATION REQUIRED - Risk Level:", result.risk_level>>
      ELSE <<"No escalation needed - Risk Level:", result.risk_level>>,
      <<"ML Classification Probability (Serious):", result.ml_probability>>,
      IF result.triggered_keywords # <<>>
      THEN <<"Regulatory Keywords Detected:", result.triggered_keywords,
             "Keyword Severity Score:", result.keyword_score>>
      ELSE <<"No regulatory keywords detected">>,
      <<"Final Combined Score:", result.final_score>>,
      IF result.should_escalate
      THEN IF result.triggered_keywords # <<>>
           THEN <<"Action: Immediate review required.">>
           ELSE <<"Action: Manual review recommended.">>
      ELSE <<>> >>

Space == <<" ">>

\* the characters the keyword scorer reads: drugname, adverse_event and the
\* symptoms
CombinedText(drugname, adverse_event, entities) ==
    LET base == Chars(drugname) \o Space \o Chars(adverse_event)
        symptoms == Get(entities, "symptoms", <<>>)
    IN  IF ~IsNone(entities) /\ DOMAIN entities # {}
        THEN base \o Space \o JoinWith(Space, [i \in 1..Len(symptoms) |-> Chars(symptoms[i])])
        ELSE base

\* evaluate_escalation without the critical-keyword override
evaluate_escalation_NoOverride(ml_prediction, drugname, adverse_event, entities) ==
    LET ml_prob == Get(ml_prediction, "serious_probability", 500)
        ks == calculate_keyword_score(CombinedText(drugname, adverse_event, entities))
        final_score == ((1000 - KEYWORD_WEIGHT) * ml_prob + KEYWORD_WEIGHT * ks.score) \div 1000
        result == [should_escalate |-> final_score >= ESCALATION_THRESHOLD,
                   final_score |-> final_score,
                   ml_probability |-> ml_prob,
                   keyword_score |-> ks.score,
                   triggered_keywords |-> ks.triggered,
                   explanation |-> <<>>,
                   risk_level |-> determine_risk_level(final_score)]
    IN  [result EXCEPT !.explanation = generate_explanation(result)]

\* evaluate_escalation that raises the prior by the number of reports the
\* audit log already holds
evaluate_escalation_Stateful(ml_prediction, drugname, adverse_event, entities) ==
    LET ml_prob == Min(1000, Get(ml_prediction, "serious_probability", 500) + 100 * Len(auditLog))
        ks == calculate_keyword_score(CombinedText(drugname, adverse_event, entities))
        final_score == IF ks.score >= OVERRIDE_SCORE
                       THEN Max(ml_prob, ks.score)
                       ELSE ((1000 - KEYWORD_WEIGHT) * ml_prob + KEYWORD_WEIGHT * ks.score) \div 1000
        result == [should_escalate |-> (final_score >= ESCALATION_THRESHOLD \/ ks.score >= OVERRIDE_SCORE),
                   final_score |-> final_score,
                   ml_probability |-> ml_prob,
                   keyword_score |-> ks.score,
                   triggered_keywords |-> ks.triggered,
                   explanation |-> <<>>,
                   risk_level |-> determine_risk_level(final_score)]
    IN  [result EXCEPT !.explanation = generate_explanation(result)]

\* evaluate_escalation whose override takes the keyword score alone instead
\* of the larger of the two signals
evaluate_escalation_OverrideReplaces(ml_prediction, drugname, adverse_event, entities) ==
    LET ml_prob == Get(ml_prediction, "serious_probability", 500)
        ks == calculate_keyword_score(CombinedText(drugname, adverse_event, entities))
        final_score == IF ks.score >= OVERRIDE_SCORE
                       THEN ks.score
                       ELSE ((1000 - KEYWORD_WEIGHT) * ml_prob + KEYWORD_WEIGHT * ks.score) \div 1000
        result == [should_escalate |-> (final_score >= ESCALATION_THRESHOLD \/ ks.score >= OVERRIDE_SCORE),
                   final_score |-> final_score,
                   ml_probability |-> ml_prob,
                   keyword_score |-> ks.score,
                   triggered_keywords |-> ks.triggered,
                   explanation |-> <<>>,
                   risk_level |-> determine_risk_level(final_score)]
    IN  [result EXCEPT !.explanation = generate_explanation(result)]

evaluate_escalation(ml_prediction, drugname, adverse_event, entities) ==
    LET ml_prob == Get(ml_prediction, "serious_probability", 500)
        ks == calculate_keyword_score(CombinedText(drugname, adverse_event, entities))
        final_score == IF ks.score >= OVERRIDE_SCORE
                       THEN Max(ml_prob, ks.score)
                       ELSE ((1000 - KEYWORD_WEIGHT) * ml_prob + KEYWORD_WEIGHT * ks.score) \div 1000
        result == [should_escalate |-> (final_score >= ESCALATION_THRESHOLD \/ ks.score >= OVERRIDE_SCORE),
                   final_score |-> final_score,
                   ml_probability |-> ml_prob,
                   keyword_score |-> ks.score,
                   triggered_keywords |-> ks.triggered,
                   explanation |-> <<>>,
                   risk_level |-> determine_risk_level(final_score)]
    IN  [result EXCEPT !.explanation = generate_explanation(result)]

\* ------------------------------------------------------------------- cases
\* What a request carries (drugname, adverse_event) together with what the
\* classifier and the entity extractor answer for it.
MlResult(prediction, p, confidence, reason) ==
    [prediction |-> prediction, serious_probability |-> p,
     non_serious_probability |-> 1000 - p, confidence |-> confidence, reason |-> reason]

Entities(drug, symptoms, method) ==
    [drug |-> drug, symptoms |-> symptoms, extraction_method |-> method]

Cases ==
    { [drugname |-> "Aspirin", adverse_event |-> "mild headache",
       ml_result |-> MlResult("Non-Serious", 100, 900, "ML classifier"),
       entities |-> Entities("Aspirin", <<"Headache">>, "regex")],
      [drugname |-> "Aspirin", adverse_event |-> "Patient DIED",
       ml_result |-> MlResult("Serious", 1000, 1000, "Rule-based override"),
       entities |-> Entities("Aspirin", <<"Rash", "Headache">>, "llm")],
      [drugname |-> "warfarin", adverse_event |-> "suicide attempt",
       ml_result |-> MlResult("Non-Serious", 100, 900, "ML classifier"),
       entities |-> Entities("warfarin", <<>>, "llm")] }

\* ------------------------------------------------------------- audit store
\* The table the database file holds.  init_database creates it with
\* CREATE TABLE IF NOT EXISTS, so a file that already has an audit_log table
\* keeps that table; "with_default" is such a table whose timestamp column
\* has DEFAULT CURRENT_TIMESTAMP, "init_database" is the table of db.py.
Schemas == {"init_database", "with_default"}

DbFaults == {"none", "unavailable", "locked"}
VecFaults == {"none", "embedding", "backend"}

\* the arguments of log_processing
LogArgs(report_id, drugname, adverse_event, ml_prediction, entities, escalation_result, processing_time_ms) ==
    [report_id |-> report_id, drugname |-> drugname, adverse_event |-> adverse_event,
     ml_prediction |-> ml_prediction, entities |-> entities,
     escalation_result |-> escalation_result, processing_time_ms |-> processing_time_ms]

EscalationDecision(escalation_result) ==
    IF escalation_result.should_escalate THEN "ESCALATE" ELSE "NO_ESCALATE"

\* evaluating the parameter tuple of the INSERT raises AttributeError
ArgsMalformed(args) ==
    IsNone(args.ml_prediction) \/ IsNone(args.entities) \/ IsNone(args.escalation_result)

\* the INSERT names no timestamp: the column's default supplies it, and
\* without a default the NOT NULL constraint of the column fails
TimestampConstraintFails(schema) == schema = "init_database"

\* the row the INSERT and the column defaults produce
AuditRow(log, t, args) ==
    [id |-> Len(log) + 1,
     report_id |-> args.report_id,
     timestamp |-> <<"sql", t>>,
     drugname |-> args.drugname,
     adverse_event |-> args.adverse_event,
     ml_prediction |-> Get(args.ml_prediction, "prediction", ""),
     ml_probability |-> Get(args.ml_prediction, "serious_probability", 0),
     extracted_drug |-> Get(args.entities, "drug", ""),
     extracted_symptoms |-> JsonDumps(Get(args.entities, "symptoms", <<>>)),
     escalation_decision |-> EscalationDecision(args.escalation_result),
     risk_level |-> args.escalation_result.risk_level,
     final_score |-> args.escalation_result.final_score,
     triggered_keywords |-> JsonDumps(args.escalation_result.triggered_keywords),
     explanation |-> args.escalation_result.explanation,
     processing_time_ms |-> args.processing_time_ms]

\* the INSERT written as INSERT OR REPLACE on a table keyed by drugname
audit_insert_Replace(schema, log, t, args, dbFault) ==
    IF dbFault # "none" \/ ArgsMalformed(args) \/ TimestampConstraintFails(schema)
    THEN [ok |-> FALSE, log |-> log]
    ELSE [ok |-> TRUE,
          log |-> Append(SelectSeq(log, LAMBDA row : row.drugname # args.drugname),
                         AuditRow(log, t, args))]


\* the with-block of log_processing: connect, INSERT, commit
audit_insert(schema, log, t, args, dbFault) ==
    IF dbFault # "none" \/ ArgsMalformed(args) \/ TimestampConstraintFails(schema)
    THEN [ok |-> FALSE, log |-> log]
    ELSE [ok |-> TRUE, log |-> Append(log, AuditRow(log, t, args))]

\* SELECT * FROM audit_log WHERE report_id = ? ; fetchone
get_audit_by_report_id(log, report_id) ==
    LET hits == SelectSeq(log, LAMBDA row : row.report_id = report_id)
    IN  IF hits = <<>> THEN <<>> ELSE <<hits[1]>>

\* ------------------------------------------------------- similarity index
\* ", ".join(symptoms), kept as the separator and the parts
Joined(sep, parts) == <<"join", sep, parts>>

build_canonical_embedding_text(drugname, adverse_event, risk_level, escalation_decision, symptoms) ==
    [Drug |-> drugname, Event |-> adverse_event,
     Symptoms |-> IF symptoms # <<>> THEN Joined(", ", symptoms) ELSE Joined("", <<"None extracted">>),
     Risk |-> risk_level, Decision |-> escalation_decision]

\* the arguments of index_audit_event
IndexArgs(report_id, drugname, adverse_event, risk_level, escalation_decision, symptoms, ml_probability, timestamp) ==
    [report_id |-> report_id, drugname |-> drugname, adverse_event |-> adverse_event,
     risk_level |-> risk_level, escalation_decision |-> escalation_decision,
     symptoms |-> symptoms, ml_probability |-> ml_probability, timestamp |-> timestamp]

\* the entry collection.upsert stores: metadata and document
IndexEntry(a) ==
    [report_id |-> a.report_id, drugname |-> a.drugname, risk_level |-> a.risk_level,
     escalation_decision |-> a.escalation_decision, ml_probability |-> a.ml_probability,
     timestamp |-> a.timestamp, symptoms |-> JsonDumps(a.symptoms),
     document |-> build_canonical_embedding_text(a.drugname, a.adverse_event, a.risk_level,
                                                 a.escalation_decision, a.symptoms)]

\* collection.upsert(ids=[report_id], ...): replaces the whole entry
Upsert(idx, entry) ==
    [r \in DOMAIN idx \cup {entry.report_id} |->
        IF r = entry.report_id THEN entry ELSE idx[r]]

index_audit_event(idx, a, vecFault) ==
    IF vecFault # "none"
    THEN [ok |-> FALSE, index |-> idx]
    ELSE [ok |-> TRUE, index |-> Upsert(idx, IndexEntry(a))]

\* the index_audit_event call of log_processing
LogIndexArgs(args, t) ==
    IndexArgs(args.report_id, args.drugname, args.adverse_event,
              args.escalation_result.risk_level,
              EscalationDecision(args.escalation_result),
              Get(args.entities, "symptoms", <<>>),
              Get(args.ml_prediction, "serious_probability", 0),
              <<"iso", t>>)

\* log_processing that reports the index failure as its own
log_processing_IndexFailureFails(schema, log, idx, t, args, dbFault, vecFault) ==
    LET ins == audit_insert(schema, log, t, args, dbFault)
        ix == index_audit_event(idx, LogIndexArgs(args, t), vecFault)
    IN  IF ~ins.ok
        THEN [ret |-> FALSE, raised |-> FALSE, log |-> ins.log, index |-> idx]
        ELSE [ret |-> ix.ok, raised |-> FALSE, log |-> ins.log, index |-> ix.index]

\* log_processing that builds the parameter tuple before entering the try
log_processing_ArgsOutsideTry(schema, log, idx, t, args, dbFault, vecFault) ==
    LET ins == audit_insert(schema, log, t, args, dbFault)
    IN  IF ArgsMalformed(args)
        THEN [ret |-> FALSE, raised |-> TRUE, log |-> log, index |-> idx]
        ELSE IF ~ins.ok
        THEN [ret |-> FALSE, raised |-> FALSE, log |-> ins.log, index |-> idx]
        ELSE [ret |-> TRUE, raised |-> FALSE, log |-> ins.log,
              index |-> index_audit_event(idx, LogIndexArgs(args, t), vecFault).index]


\* log_processing as one call: what it returns and the stores it leaves
log_processing(schema, log, idx, t, args, dbFault, vecFault) ==
    LET ins == audit_insert(schema, log, t, args, dbFault)
    IN  IF ~ins.ok
        THEN [ret |-> FALSE, raised |-> FALSE, log |-> ins.log, index |-> idx]
        ELSE [ret |-> TRUE, raised |-> FALSE, log |-> ins.log,
              index |-> index_audit_event(idx, LogIndexArgs(args, t), vecFault).index]

\* the index_audit_event call of backfill for one fetched row
BackfillIndexArgs(row) ==
    IndexArgs(row.report_id, row.drugname, row.adverse_event, row.risk_level,
              row.escalation_decision, <<>>, 0, row.timestamp)

\* ------------------------------------------------------ similarity search
EXTRA_RESULTS == 10

\* The orders in which the collection can rank the entries of S for a
\* query: the embedding model decides the distances, so any order can occur.
Rankings(S) ==
    {s \in [1..Cardinality(S) -> S] : \A i, j \in DOMAIN s : s[i] = s[j] => i = j}

Prefix(s, n) == SubSeq(s, 1, Min(n, Len(s)))

\* the query sent without its where filter
PassesWhere_NoFilter(entry, escalated_only) == TRUE


\* the where filter of the query
PassesWhere(entry, escalated_only) ==
    escalated_only => entry.escalation_decision = "ESCALATE"

\* collection.query: ids of the entries that pass the filter, nearest first
CollectionQuery(idx, ranking, n_results, escalated_only) ==
    Prefix(SelectSeq(ranking, LAMBDA r : PassesWhere(idx[r], escalated_only)), n_results)

\* the element test s.lower() in [q.lower() for q in query_symptoms]
MatchedSymptoms(symptoms, query_symptoms) ==
    SelectSeq(symptoms, LAMBDA s :
        \E i \in 1..Len(query_symptoms) : Lower(Chars(query_symptoms[i])) = Lower(Chars(s)))

\* the dict appended for the i-th returned id
SimilarEvent(idx, ids, i, query_symptoms) ==
    LET metadata == idx[ids[i]]
        symptoms == JsonLoads(metadata.symptoms)
    IN  [report_id |-> ids[i],
         drugname |-> metadata.drugname,
         risk_level |-> metadata.risk_level,
         timestamp |-> metadata.timestamp,
         ml_probability |-> metadata.ml_probability,
         all_symptoms |-> symptoms,
         matched_symptoms |-> MatchedSymptoms(symptoms, query_symptoms),
         vector_distance |-> i,
         canonical_text |-> metadata.document]

\* the result loop without the self-match test
IsSelfMatch_Never(report_id, current_report_id) == FALSE


\* the self-match test of the result loop
IsSelfMatch(report_id, current_report_id) ==
    current_report_id # NoReportId /\ report_id = current_report_id

\* the stop test of the result loop, made after each append
LoopStops(similar_events, top_k) == Len(similar_events) >= top_k

RECURSIVE ResultLoop(_, _, _, _, _, _, _)
\* the for loop over results["ids"][0], from position i
ResultLoop(idx, ids, i, query_symptoms, current_report_id, top_k, similar_events) ==
    IF i > Len(ids) THEN similar_events
    ELSE IF IsSelfMatch(ids[i], current_report_id)
         THEN ResultLoop(idx, ids, i + 1, query_symptoms, current_report_id, top_k, similar_events)
         ELSE LET appended == Append(similar_events, SimilarEvent(idx, ids, i, query_symptoms))
              IN  IF LoopStops(appended, top_k) THEN appended
                  ELSE ResultLoop(idx, ids, i + 1, query_symptoms, current_report_id, top_k, appended)

\* search_similar_events without its try block
SearchOnError_Propagates == [raised |-> TRUE, results |-> <<>>]


\* what the except clause of search_similar_events does with an exception
SearchOnError == [raised |-> FALSE, results |-> <<>>]

\* q: the query arguments; ranking and fault: what the backend does
search_similar_events(idx, q, ranking, fault) ==
    IF fault # "none" THEN SearchOnError
    ELSE [raised |-> FALSE,
          results |-> ResultLoop(idx,
                                 CollectionQuery(idx, ranking, q.top_k + EXTRA_RESULTS, q.escalated_only),
                                 1, q.query_symptoms, q.current_report_id, q.top_k, <<>>)]

SearchArgs(drugname, event, symptoms, risk_level, current_report_id, top_k, escalated_only) ==
    [query_drugname |-> drugname, query_event |-> event, query_symptoms |-> symptoms,
     query_risk_level |-> risk_level, current_report_id |-> current_report_id,
     top_k |-> top_k, escalated_only |-> escalated_only]

\* the dict get_similar_serious_events_vector builds from one search result
SimilarSeriousEvent(row) ==
    [report_id |-> row.report_id, drugname |-> row.drugname,
     adverse_event |-> row.canonical_text, timestamp |-> row.timestamp,
     risk_level |-> row.risk_level, ml_probability |-> row.ml_probability,
     matched_symptoms |-> row.matched_symptoms]

get_similar_serious_events_vector(idx, drugname, adverse_event, current_symptoms, risk_level, current_report_id, limit, ranking, fault) ==
    LET raw == search_similar_events(idx,
                   SearchArgs(drugname, adverse_event, current_symptoms, risk_level,
                              current_report_id, limit, TRUE),
                   ranking, fault)
    IN  IF raw.raised
        THEN [raised |-> FALSE, search_raised |-> TRUE, events |-> <<>>]
        ELSE [raised |-> FALSE, search_raised |-> FALSE,
              events |-> [i \in 1..Len(raw.results) |-> SimilarSeriousEvent(raw.results[i])]]

\* ------------------------------------------------- the request pipeline
SIMILAR_LIMIT == 5

\* a worker thread outside process_adverse_event_core
IdleReq ==
    [pc |-> "idle", case |-> NoneDict, canonical_drug |-> "", escalation |-> NoneDict,
     processing_time_ms |-> 0, report_id |-> NoReportId, log_ret |-> "None"]

\* evaluate_escalation on the case, as step 4 calls it
CaseEscalation ==
    [c \in Cases |-> evaluate_escalation(c.ml_result, c.drugname, c.adverse_event, c.entities)]

\* the arguments process_adverse_event_core passes to log_processing
PipelineLogArgs(r) ==
    LogArgs(r.report_id, r.canonical_drug, r.case.adverse_event, r.case.ml_result,
            r.case.entities, r.escalation, r.processing_time_ms)

\* AfterInsert with the index call moved out of the try block's success path
AfterInsert_AlwaysIndex(ok) == "log_index"


\* where log_processing goes after the with-block: on to the index, or to
\* the except clause that returns False
AfterInsert(ok) == IF ok THEN "log_index" ELSE "logged"

\* what the caller of process_adverse_event_core gets when it raises
Raised(c, what) ==
    [op |-> "process_adverse_event_core", outcome |-> what, case |-> c]

\* Begin with the validation result read only after the audit insert
Begin_ValidatesAfterLogging(w, c, valid, loaded) ==
    /\ req[w].pc = "idle"
    /\ accepted < MaxReports
    /\ accepted' = accepted + 1
    /\ IF ~valid
       THEN /\ call' = Raised(c, "HTTP 400")
            /\ auditLog' = audit_insert(auditSchema, auditLog, now,
                               LogArgs(accepted + 1, c.drugname, c.adverse_event, c.ml_result,
                                       c.entities, CaseEscalation[c], 0), "none").log
            /\ UNCHANGED req
       ELSE IF ~loaded
       THEN /\ call' = Raised(c, "ClassifierNotLoadedError")
            /\ UNCHANGED <<req, auditLog>>
       ELSE /\ req' = [req EXCEPT ![w] =
                         [pc |-> "evaluated", case |-> c, canonical_drug |-> c.drugname,
                          escalation |-> CaseEscalation[c],
                          processing_time_ms |-> (now - now) * 1000,
                          report_id |-> accepted + 1, log_ret |-> "None"]]
            /\ UNCHANGED <<call, auditLog>>
    /\ UNCHANGED <<auditSchema, run, db, coll, pdf, index, bf, now>>

\* Steps 1 to 5 of process_adverse_event_core, none of which touches the
\* audit log or the index: lookup_drug_rxnorm (an invalid drug raises
\* HTTPException 400), get_drug_info, predict_from_features (its
\* ClassifierNotLoadedError is not caught), extract_entities,
\* evaluate_escalation, the processing time and generate_report_id, whose
\* fresh id the model names after the number of the request.
Begin(w, c, valid, loaded) ==
    /\ req[w].pc = "idle"
    /\ accepted < MaxReports
    /\ accepted' = accepted + 1
    /\ IF ~valid
       THEN /\ call' = Raised(c, "HTTP 400")
            /\ UNCHANGED req
       ELSE IF ~loaded
       THEN /\ call' = Raised(c, "ClassifierNotLoadedError")
            /\ UNCHANGED req
       ELSE /\ req' = [req EXCEPT ![w] =
                         [pc |-> "evaluated", case |-> c, canonical_drug |-> c.drugname,
                          escalation |-> CaseEscalation[c],
                          processing_time_ms |-> (now - now) * 1000,
                          report_id |-> accepted + 1, log_ret |-> "None"]]
            /\ UNCHANGED call
    /\ UNCHANGED <<auditSchema, run, db, coll, pdf, auditLog, index, bf, now>>

\* step 6, first half: the INSERT and commit of log_processing
LogInsert(w, dbFault) ==
    /\ req[w].pc = "evaluated"
    /\ LET ins == audit_insert(auditSchema, auditLog, now, PipelineLogArgs(req[w]), dbFault)
       IN  /\ auditLog' = ins.log
           /\ req' = [req EXCEPT ![w] =
                        [@ EXCEPT !.pc = AfterInsert(ins.ok),
                                  !.log_ret = IF ins.ok THEN @ ELSE "False"]]
    /\ UNCHANGED <<auditSchema, run, db, coll, pdf, index, accepted, bf, now, call>>

\* step 6, second half: index_audit_event, its failure swallowed; the value
\* log_processing returns is not read by process_adverse_event_core
LogIndex(w, vecFault) ==
    /\ req[w].pc = "log_index"
    /\ index' = index_audit_event(index, LogIndexArgs(PipelineLogArgs(req[w]), now), vecFault).index
    /\ req' = [req EXCEPT ![w] = [@ EXCEPT !.pc = "logged", !.log_ret = "True"]]
    /\ UNCHANGED <<auditSchema, run, db, coll, pdf, auditLog, accepted, bf, now, call>>

\* step 8: send_escalation_email catches its own SMTP errors, so the
\* pipeline reports sent whenever it attempted
EmailNotification(risk_level) ==
    IF risk_level \in {"CRITICAL", "HIGH"}
    THEN [attempted |-> TRUE, sent |-> TRUE]
    ELSE [attempted |-> FALSE, sent |-> FALSE]

\* step 9 runs the similarity query for a Serious, escalated case
QueriesSimilar(r) == r.case.ml_result.prediction = "Serious" /\ r.escalation.should_escalate

\* The collaborators a finished run of process_adverse_event_core has called,
\* in the order of its statements, each with the report_id it was given
\* (none before generate_report_id): steps 1 to 4, log_processing with its
\* insert and, after a committed insert, its index call, then trigger_alert
\* (step 7), send_escalation_email (step 8) and the similarity query (step 9).
PipelineSteps(r) ==
    <<  <<"lookup_drug_rxnorm", NoReportId>>, <<"predict_from_features", NoReportId>>,
        <<"extract_entities", NoReportId>>, <<"evaluate_escalation", NoReportId>>,
        <<"audit_insert", r.report_id>> >>
    \o (IF r.log_ret = "True" THEN << <<"index_audit_event", r.report_id>> >> ELSE <<>>)
    \o (IF r.escalation.should_escalate THEN << <<"trigger_alert", r.report_id>> >> ELSE <<>>)
    \o (IF r.escalation.risk_level \in {"CRITICAL", "HIGH"}
        THEN << <<"send_escalation_email", r.report_id>> >> ELSE <<>>)
    \o (IF QueriesSimilar(r)
        THEN << <<"get_similar_serious_events_vector", r.report_id>> >> ELSE <<>>)

\* The dict process_adverse_event_core returns, with what the run did on
\* the way: whether it alerted, whether and how the query failed, and the
\* value log_processing had returned.
Result(r, got, fault) ==
    [op |-> "process_adverse_event_core",
     outcome |-> IF got.raised THEN "raised" ELSE "result",
     case |-> r.case,
     report_id |-> r.report_id,
     canonical_drug |-> r.canonical_drug,
     escalation |-> r.escalation,
     email_notification |-> EmailNotification(r.escalation.risk_level),
     similar_events |-> got.events,
     alerted |-> r.escalation.should_escalate,
     query_made |-> QueriesSimilar(r),
     query_fault |-> IF QueriesSimilar(r) THEN fault ELSE "none",
     search_raised |-> got.search_raised,
     log_ret |-> r.log_ret,
     steps |-> PipelineSteps(r)]

\* Steps 7 to 10 and the return statement: trigger_alert for an escalated
\* case, send_escalation_email, get_similar_serious_events_vector, the
\* review flag and the result dict.
Complete(w, ranking, fault) ==
    /\ req[w].pc = "logged"
    /\ LET r == req[w]
           got == IF QueriesSimilar(r)
                  THEN get_similar_serious_events_vector(index, r.canonical_drug,
                           r.case.adverse_event, Get(r.case.entities, "symptoms", <<>>),
                           r.escalation.risk_level, r.report_id, SIMILAR_LIMIT, ranking, fault)
                  ELSE [raised |-> FALSE, search_raised |-> FALSE, events |-> <<>>]
       IN  /\ ~QueriesSimilar(r) =>
                 fault = "none" /\ ranking = CHOOSE s \in Rankings(DOMAIN index) : TRUE
           /\ call' = Result(r, got, fault)
           /\ req' = [req EXCEPT ![w] = IdleReq]
    /\ UNCHANGED <<auditSchema, run, db, coll, pdf, auditLog, index, accepted, bf, now>>

\* steps 7-10 of a request, the index answering with any distance order
CompleteRequest(w, fault) ==
    \E ranking \in Rankings(DOMAIN index) : Complete(w, ranking, fault)

\* ---------------------------------------------------------------- backfill
\* the SELECT of backfill: the escalated rows, fetched at once
BackfillRows(log) == SelectSeq(log, LAMBDA row : row.escalation_decision = "ESCALATE")

BackfillSelect ==
    /\ bf.pc = "idle"
    /\ bf' = [pc |-> "indexing", rows |-> BackfillRows(auditLog)]
    /\ UNCHANGED <<auditSchema, run, db, coll, pdf, auditLog, index, req, accepted, now, call>>

BackfillIndexRow(vecFault) ==
    /\ bf.pc = "indexing"
    /\ bf.rows # <<>>
    /\ index' = index_audit_event(index, BackfillIndexArgs(Head(bf.rows)), vecFault).index
    /\ bf' = [bf EXCEPT !.rows = Tail(@)]
    /\ UNCHANGED <<auditSchema, run, db, coll, pdf, auditLog, req, accepted, now, call>>

\* the script is run once
BackfillDone ==
    /\ bf.pc = "indexing"
    /\ bf.rows = <<>>
    /\ bf' = [bf EXCEPT !.pc = "done"]
    /\ UNCHANGED <<auditSchema, run, db, coll, pdf, auditLog, index, req, accepted, now, call>>

\* ------------------------------------------------------------- maintenance
EmptyIndex == <<>>

\* reset_collection: delete_collection, then get_collection creates it anew
reset_collection(idx, fault) ==
    IF fault = "backend" THEN [ret |-> FALSE, index |-> idx]
    ELSE [ret |-> TRUE, index |-> EmptyIndex]

ResetCollection(fault) ==
    /\ LET r == reset_collection(index, fault)
       IN  index' = r.index
    /\ UNCHANGED <<auditSchema, run, db, coll, pdf, auditLog, req, accepted, bf, now, call>>

\* ----------------------------------------------------- lazy initialisation
\* get_collection, statement by statement, for callers that run at the same
\* time: exists says whether the client holds the collection adverse_events,
\* handle whether the global _collection is set, created counts the
\* create_collection calls that succeeded.
IdleCaller == [pc |-> "idle", op |-> "none", failed |-> FALSE]

NoCollection ==
    [exists |-> FALSE, handle |-> FALSE, created |-> 0, caller |-> [w \in Workers |-> IdleCaller]]

\* the functions that call get_collection inside their try block
CollectionOps == {"index_audit_event", "search_similar_events"}

\* the report a caller indexes
CallerReport(w) == IF w = "w1" THEN 1 ELSE 2

\* a caller enters index_audit_event or search_similar_events
EnterOp(w, op) ==
    /\ coll.caller[w].pc \in {"idle", "done"}
    /\ coll' = [coll EXCEPT !.caller[w] = [pc |-> "get_collection", op |-> op, failed |-> FALSE]]
    /\ UNCHANGED <<auditSchema, run, db, pdf, auditLog, index, req, accepted, bf, now, call>>

\* if _collection is None
TestHandle(w) ==
    /\ coll.caller[w].pc = "get_collection"
    /\ coll' = [coll EXCEPT !.caller[w].pc =
                    IF coll.handle THEN "use" ELSE "client.get_collection"]
    /\ UNCHANGED <<auditSchema, run, db, pdf, auditLog, index, req, accepted, bf, now, call>>

\* _collection = client.get_collection(name): raises when there is none
ClientGetCollection(w) ==
    /\ coll.caller[w].pc = "client.get_collection"
    /\ coll' = IF coll.exists
               THEN [coll EXCEPT !.handle = TRUE, !.caller[w].pc = "use"]
               ELSE [coll EXCEPT !.caller[w].pc = "client.create_collection"]
    /\ UNCHANGED <<auditSchema, run, db, pdf, auditLog, index, req, accepted, bf, now, call>>

\* _collection = client.create_collection(name): raises when the collection
\* exists, and the except clause of the calling function ends the call
ClientCreateCollection(w) ==
    /\ coll.caller[w].pc = "client.create_collection"
    /\ coll' = IF coll.exists
               THEN [coll EXCEPT !.caller[w].pc = "done", !.caller[w].failed = TRUE]
               ELSE [coll EXCEPT !.exists = TRUE, !.handle = TRUE, !.created = @ + 1,
                                 !.caller[w].pc = "use"]
    /\ UNCHANGED <<auditSchema, run, db, pdf, auditLog, index, req, accepted, bf, now, call>>

\* collection.upsert of the caller's report, or collection.query
UseCollection(w) ==
    /\ coll.caller[w].pc = "use"
    /\ coll' = [coll EXCEPT !.caller[w].pc = "done"]
    /\ index' = IF coll.caller[w].op = "index_audit_event"
                THEN LET c == CHOOSE c \in Cases : c.adverse_event = "Patient DIED"
                     IN  Upsert(index, IndexEntry(LogIndexArgs(
                             LogArgs(CallerReport(w), c.drugname, c.adverse_event, c.ml_result,
                                     c.entities, CaseEscalation[c], 0), now)))
                ELSE index
    /\ UNCHANGED <<auditSchema, run, db, pdf, auditLog, req, accepted, bf, now, call>>

\* ------------------------------------------------------- concurrent writers
\* log_processing on connections of get_connection (timeout=5.0, WAL,
\* busy_timeout 5000), statement by statement: the INSERT takes the write
\* lock of the database or waits for it, commit appends the row and gives
\* the lock back, and a reader sees the committed rows only.
BUSY_TIMEOUT == 5

IdleWriter == [pc |-> "idle", report_id |-> NoReportId, waited |-> 0, pending |-> NoneDict, ret |-> "None"]

NoWriters == [lock |-> "none", writer |-> [w \in Workers |-> IdleWriter]]

\* the busy handler that never gives up
BusyHandler_NoTimeout(waited) == "wait"

\* the busy handler: wait while less than the timeout has passed, then
\* raise OperationalError (database is locked)
BusyHandler(waited) == IF waited < BUSY_TIMEOUT THEN "wait" ELSE "raise"

\* journal_mode=WAL: a reader proceeds whoever holds the write lock
ReaderMayProceed(lock) == TRUE

\* the arguments of the writer's call
WriterArgs(report_id) ==
    LET c == CHOOSE c \in Cases : c.adverse_event = "Patient DIED"
    IN  LogArgs(report_id, c.drugname, c.adverse_event, c.ml_result, c.entities,
                CaseEscalation[c], 0)

\* log_processing is entered and the connection opened
StartWrite(w) ==
    /\ db.writer[w].pc \in {"idle", "done"}
    /\ accepted < MaxReports
    /\ accepted' = accepted + 1
    /\ db' = [db EXCEPT !.writer[w] = [IdleWriter EXCEPT !.pc = "insert", !.report_id = accepted + 1]]
    /\ UNCHANGED <<auditSchema, run, coll, pdf, auditLog, index, req, bf, now, call>>

\* cursor.execute(INSERT) with the write lock free: the row is written but
\* not committed, or the constraint fails and the call returns False
ExecuteInsert(w) ==
    /\ db.writer[w].pc = "insert"
    /\ db.lock = "none"
    /\ db' = IF TimestampConstraintFails(auditSchema)
             THEN [db EXCEPT !.writer[w].pc = "done", !.writer[w].ret = "False"]
             ELSE [db EXCEPT !.lock = w, !.writer[w].pc = "commit",
                             !.writer[w].pending =
                                 AuditRow(auditLog, now, WriterArgs(db.writer[w].report_id))]
    /\ UNCHANGED <<auditSchema, run, coll, pdf, auditLog, index, req, accepted, bf, now, call>>

\* cursor.execute(INSERT) with the write lock held by another connection:
\* a second of waiting, or the exception and return False
BusyWait(w) ==
    /\ db.writer[w].pc = "insert"
    /\ db.lock # "none"
    /\ db.writer[w].waited <= BUSY_TIMEOUT
    /\ db' = IF BusyHandler(db.writer[w].waited) = "wait"
             THEN [db EXCEPT !.writer[w].waited = @ + 1]
             ELSE [db EXCEPT !.writer[w].pc = "done", !.writer[w].ret = "False"]
    /\ UNCHANGED <<auditSchema, run, coll, pdf, auditLog, index, req, accepted, bf, now, call>>

\* conn.commit() and the end of the with block
CommitInsert(w) ==
    /\ db.writer[w].pc = "commit"
    /\ auditLog' = Append(auditLog, db.writer[w].pending)
    /\ db' = [db EXCEPT !.lock = "none", !.writer[w].pc = "index"]
    /\ UNCHANGED <<auditSchema, run, coll, pdf, index, req, accepted, bf, now, call>>

\* index_audit_event, its failure swallowed, and return True
IndexAndReturn(w, vecFault) ==
    /\ db.writer[w].pc = "index"
    /\ index' = index_audit_event(index, LogIndexArgs(WriterArgs(db.writer[w].report_id), now),
                                  vecFault).index
    /\ db' = [db EXCEPT !.writer[w].pc = "done", !.writer[w].ret = "True"]
    /\ UNCHANGED <<auditSchema, run, coll, pdf, auditLog, req, accepted, bf, now, call>>

\* what one writer does next
WriterStep(w) ==
    \/ ExecuteInsert(w)
    \/ BusyWait(w)
    \/ CommitInsert(w)
    \/ \E vecFault \in VecFaults : IndexAndReturn(w, vecFault)


\* --------------------------------------------------- silent collaborators
\* process_adverse_event_core as the sequence of its calls to services
\* outside the function, each of which answers, or stays silent for ever.
\* A silent service ends the call only where the call carries a timeout.
IdleRun ==
    [pc |-> "idle", case |-> NoneDict, silent |-> {}, smtp_configured |-> FALSE, pos |-> 0,
     timed_out |-> {}, decision |-> NoneDict]

\* the optional collaborators: the drug-information service, the
\* entity-extraction LLM, the embedding model, the similarity index backend
\* and the e-mail server
OptionalCollaborators == {"dailymed", "ollama", "embedding", "chroma", "smtp"}

\* the calls that carry a timeout: requests.get(..., timeout=10) of
\* dailymed_service and httpx.post(..., timeout=TIMEOUT) of entity_extractor;
\* SentenceTransformer.encode, collection.upsert, collection.query and
\* smtplib.SMTP(SMTP_HOST, SMTP_PORT) carry none
HasTimeout(collaborator) == collaborator \in {"dailymed", "ollama"}

\* ------------------------------------------------------------ initial state
NoCall == [op |-> "none"]

Init ==
    /\ auditSchema \in Schemas
    /\ auditLog = <<>>
    /\ index = EmptyIndex
    /\ req = [w \in Workers |-> IdleReq]
    /\ accepted = 0
    /\ bf = [pc |-> "idle", rows |-> <<>>]
    /\ now = 0
    /\ call = NoCall
    /\ pdf = <<>>
    /\ coll = NoCollection
    /\ db = NoWriters
    /\ run = IdleRun

\* ------------------------------------------------------------- audit reads
SECONDS_PER_DAY == 86400
LAST_SECOND_OF_DAY == 86399
NoDate == -1

\* the WHERE clause with the end date compared as given, without the
\* ' 23:59:59' appended to it
AuditFilter_EndAtMidnight(row, f) ==
    /\ f.risk_level # "" => row.risk_level = f.risk_level
    /\ f.escalated_only => row.escalation_decision = "ESCALATE"
    /\ f.start_date # NoDate => row.timestamp[2] >= f.start_date * SECONDS_PER_DAY
    /\ f.end_date # NoDate => row.timestamp[2] <= f.end_date * SECONDS_PER_DAY

\* the WHERE clause of get_audit_logs; a date is a day number, and the text
\* comparisons timestamp >= 'YYYY-MM-DD' and timestamp <= 'YYYY-MM-DD 23:59:59'
\* on 'YYYY-MM-DD HH:MM:SS' timestamps are comparisons of seconds
AuditFilter(row, f) ==
    /\ f.risk_level # "" => row.risk_level = f.risk_level
    /\ f.escalated_only => row.escalation_decision = "ESCALATE"
    /\ f.start_date # NoDate => row.timestamp[2] >= f.start_date * SECONDS_PER_DAY
    /\ f.end_date # NoDate => row.timestamp[2] <= f.end_date * SECONDS_PER_DAY + LAST_SECOND_OF_DAY

\* ORDER BY timestamp DESC: order is a ranking of the row ids
NewestFirst(log, order) ==
    \A i, j \in DOMAIN order : i < j => log[order[i]].timestamp[2] >= log[order[j]].timestamp[2]

\* get_audit_logs: the matching rows in the given newest-first order, then
\* LIMIT and OFFSET
get_audit_logs(log, f, order) ==
    LET rows == [i \in DOMAIN order |-> log[order[i]]]
    IN  SubSeq(rows, f.offset + 1, Min(Len(rows), f.offset + f.limit))

MatchingIds(log, f) == {i \in DOMAIN log : AuditFilter(log[i], f)}

AuditFilter0 ==
    [risk_level |-> "", escalated_only |-> FALSE, start_date |-> NoDate, end_date |-> NoDate,
     limit |-> 100, offset |-> 0]

\* the filter settings the model calls get_audit_logs with
AuditFilters ==
    { AuditFilter0,
      [AuditFilter0 EXCEPT !.risk_level = "CRITICAL"],
      [AuditFilter0 EXCEPT !.escalated_only = TRUE, !.limit = 1],
      [AuditFilter0 EXCEPT !.start_date = 0, !.end_date = 0],
      [AuditFilter0 EXCEPT !.start_date = 1],
      [AuditFilter0 EXCEPT !.offset = 1] }

RECURSIVE SumOver(_, _)
SumOver(log, field) ==
    IF log = <<>> THEN 0 ELSE Head(log)[field] + SumOver(Tail(log), field)

RiskLevels == {"LOW", "MEDIUM", "HIGH", "CRITICAL"}

\* get_audit_summary; the rate is escalated / total in units of 1/1000
get_audit_summary(log) ==
    LET total == Len(log)
        escalated == Len(SelectSeq(log, LAMBDA row : row.escalation_decision = "ESCALATE"))
        present == {l \in RiskLevels : \E i \in DOMAIN log : log[i].risk_level = l}
    IN  [total_processed |-> total,
         by_risk_level |-> [l \in present |->
                              Len(SelectSeq(log, LAMBDA row : row.risk_level = l))],
         escalation_rate |-> IF total > 0 THEN (escalated * 1000) \div total ELSE 0,
         avg_processing_time_ms |-> IF total > 0
                                    THEN SumOver(log, "processing_time_ms") \div total ELSE 0]

\* ------------------------------------- the service functions, one at a time
\* The functions of audit_logger, vector_service and backfill_service called
\* directly, each call running to its end before the next one starts.

\* a classifier output without the serious_probability key
WithoutProbability(ml_result) == [prediction |-> ml_result.prediction]

\* what a caller can pass to log_processing: the values a case gives, or
\* None in place of one of the three objects, or a classifier output without
\* serious_probability together with the decision the engine made from it
LogCallArgs(report_id, t) ==
    LET good == {LogArgs(report_id, c.drugname, c.adverse_event, c.ml_result, c.entities,
                         CaseEscalation[c], t) : c \in Cases}
    IN  good \cup {[a EXCEPT !.ml_prediction = NoneDict] : a \in good}
             \cup {[a EXCEPT !.escalation_result = NoneDict] : a \in good}
             \cup {LogArgs(report_id, c.drugname, c.adverse_event,
                           WithoutProbability(c.ml_result), c.entities,
                           evaluate_escalation(WithoutProbability(c.ml_result), c.drugname,
                                               c.adverse_event, c.entities), t) : c \in Cases}

LogProcessingCall(args, dbFault, vecFault) ==
    /\ call = NoCall
    /\ accepted < MaxReports
    /\ accepted' = accepted + 1
    /\ LET r == log_processing(auditSchema, auditLog, index, now, args, dbFault, vecFault)
       IN  /\ auditLog' = r.log
           /\ index' = r.index
           /\ call' = [op |-> "log_processing", args |-> args, dbFault |-> dbFault,
                       vecFault |-> vecFault, ret |-> r.ret, raised |-> r.raised]
    /\ UNCHANGED <<auditSchema, run, db, coll, pdf, req, bf, now>>

GetAuditByReportIdCall(report_id) ==
    /\ call = NoCall
    /\ call' = [op |-> "get_audit_by_report_id", report_id |-> report_id,
                result |-> get_audit_by_report_id(auditLog, report_id)]
    /\ UNCHANGED <<auditSchema, run, db, coll, pdf, auditLog, index, req, accepted, bf, now>>

GetAuditLogsCall(f, order) ==
    /\ call = NoCall
    /\ NewestFirst(auditLog, order)
    /\ call' = [op |-> "get_audit_logs", filters |-> f,
                result |-> get_audit_logs(auditLog, f, order)]
    /\ UNCHANGED <<auditSchema, run, db, coll, pdf, auditLog, index, req, accepted, bf, now>>

GetAuditSummaryCall ==
    /\ call = NoCall
    /\ call' = [op |-> "get_audit_summary", result |-> get_audit_summary(auditLog)]
    /\ UNCHANGED <<auditSchema, run, db, coll, pdf, auditLog, index, req, accepted, bf, now>>

\* the queries a caller can make: the texts of a case, any report id to
\* exclude (or none), any top_k up to MaxTopK, either filter setting
SearchCallArgs ==
    {SearchArgs(c.drugname, c.adverse_event, c.entities.symptoms,
                CaseEscalation[c].risk_level, r, k, e) :
        c \in {c \in Cases : c.adverse_event = "Patient DIED"},
        r \in ReportIds \cup {NoReportId}, k \in 0..MaxTopK, e \in BOOLEAN}

SearchSimilarEventsCall(q, ranking, fault) ==
    /\ call = NoCall
    /\ LET r == search_similar_events(index, q, ranking, fault)
       IN  call' = [op |-> "search_similar_events", args |-> q, ranking |-> ranking,
                    fault |-> fault, raised |-> r.raised, results |-> r.results]
    /\ UNCHANGED <<auditSchema, run, db, coll, pdf, auditLog, index, req, accepted, bf, now>>

RECURSIVE BackfillLoop(_, _, _, _)
\* the for loop of backfill over the fetched rows, from position i; failing
\* is the set of positions at which index_audit_event fails
BackfillLoop(idx, rows, i, failing) ==
    IF i > Len(rows) THEN idx
    ELSE BackfillLoop(index_audit_event(idx, BackfillIndexArgs(rows[i]),
                                        IF i \in failing THEN "backend" ELSE "none").index,
                      rows, i + 1, failing)

BackfillCall(failing) ==
    /\ call = NoCall
    /\ index' = BackfillLoop(index, BackfillRows(auditLog), 1, failing)
    /\ call' = [op |-> "backfill", failing |-> failing]
    /\ UNCHANGED <<auditSchema, run, db, coll, pdf, auditLog, req, accepted, bf, now>>

ResetCollectionCall(fault) ==
    /\ call = NoCall
    /\ LET r == reset_collection(index, fault)
       IN  /\ index' = r.index
           /\ call' = [op |-> "reset_collection", fault |-> fault, ret |-> r.ret]
    /\ UNCHANGED <<auditSchema, run, db, coll, pdf, auditLog, req, accepted, bf, now>>

\* the caller has its result and can make the next call
Return ==
    /\ call # NoCall
    /\ call' = NoCall
    /\ UNCHANGED <<auditSchema, run, db, coll, pdf, auditLog, index, req, accepted, bf, now>>

\* a call starts when the caller has no call outstanding
CallLogProcessing ==
    /\ call = NoCall
    /\ \E args \in LogCallArgs(accepted + 1, 0), dbFault \in DbFaults, vecFault \in VecFaults :
          /\ dbFault # "none" => vecFault = "none"
          /\ LogProcessingCall(args, dbFault, vecFault)

CallGetAuditByReportId ==
    /\ call = NoCall
    /\ \E r \in ReportIds : GetAuditByReportIdCall(r)

CallGetAuditLogs ==
    /\ call = NoCall
    /\ \E f \in AuditFilters : \E order \in Rankings(MatchingIds(auditLog, f)) :
          GetAuditLogsCall(f, order)

CallSearchSimilarEvents ==
    /\ call = NoCall
    /\ \E ranking \in Rankings(DOMAIN index) : \E q \in SearchCallArgs, fault \in VecFaults :
          /\ fault # "none" => ranking = CHOOSE s \in Rankings(DOMAIN index) : TRUE
          /\ SearchSimilarEventsCall(q, ranking, fault)

CallBackfill ==
    /\ call = NoCall
    /\ \E failing \in SUBSET (1..Len(BackfillRows(auditLog))) : BackfillCall(failing)

CallResetCollection ==
    /\ call = NoCall
    /\ \E fault \in {"none", "backend"} : ResetCollectionCall(fault)

NextApi ==
    \/ CallLogProcessing
    \/ CallGetAuditByReportId
    \/ CallGetAuditLogs
    \/ GetAuditSummaryCall
    \/ CallSearchSimilarEvents
    \/ CallBackfill
    \/ CallResetCollection
    \/ Return

SpecApi == Init /\ [][NextApi]_vars

\* ------------------------------------------------- the concurrent system
\* the cases the concurrent system is run on: one that is not escalated and
\* one that is Serious and escalated
SpecCases == {c \in Cases : c.adverse_event \in {"mild headache", "Patient DIED"}}

Next ==
    \/ \E w \in Workers, c \in SpecCases, valid, loaded \in BOOLEAN : Begin(w, c, valid, loaded)
    \/ \E w \in Workers, dbFault \in DbFaults : LogInsert(w, dbFault)
    \/ \E w \in Workers, vecFault \in VecFaults : LogIndex(w, vecFault)
    \/ \E w \in Workers, fault \in VecFaults : CompleteRequest(w, fault)
    \/ BackfillSelect
    \/ \E vecFault \in VecFaults : BackfillIndexRow(vecFault)
    \/ BackfillDone
    \/ \E fault \in {"none", "backend"} : ResetCollection(fault)

Spec == Init /\ [][Next]_vars

\* ------------------------------------------------- one request at a time
\* process_adverse_event_core run by a single caller on every case, each
\* request finished before the next one starts.
SingleWorker == "w1"

NextPipeline ==
    \/ \E c \in Cases, valid, loaded \in BOOLEAN : Begin(SingleWorker, c, valid, loaded)
    \/ \E dbFault \in DbFaults : LogInsert(SingleWorker, dbFault)
    \/ \E vecFault \in VecFaults : LogIndex(SingleWorker, vecFault)
    \/ \E fault \in VecFaults : CompleteRequest(SingleWorker, fault)

SpecPipeline == Init /\ [][NextPipeline]_vars

\* ------------------------------------------------- the escalation engine
\* The functions of escalation_engine.py called on their own, on inputs the
\* pipeline need not produce.

\* every score of [0, 1], in thousandths
Scores == 0..1000

DetermineRiskLevelCall ==
    /\ call = NoCall
    /\ \E score \in Scores :
          call' = [op |-> "determine_risk_level", score |-> score,
                   level |-> determine_risk_level(score)]
    /\ UNCHANGED <<auditSchema, run, db, coll, pdf, auditLog, index, req, accepted, bf, now>>

\* serious_probability: None in the classifier output
NoProbability == -1

\* the probabilities a classifier output carries, in steps of 0.01
EngineProbabilities == {10 * i : i \in 0..100}

\* the ml_prediction arguments: a classifier output for each probability,
\* one without the serious_probability key, one whose value is None, and
\* None instead of a dict
EngineMlPredictions ==
    {MlResult(IF p >= 300 THEN "Serious" ELSE "Non-Serious", p, Max(p, 1000 - p), "ML classifier") :
        p \in EngineProbabilities}
    \cup {[prediction |-> "Serious"],
          [prediction |-> "Serious", serious_probability |-> NoProbability],
          NoneDict}

\* the adverse_event arguments: the empty text, texts without a keyword and
\* with keywords of weight 7, 8, 9 and 10
EngineEvents == {"", "mild headache", "seizure", "sepsis", "suicide attempt", "death", "Patient DIED"}

\* the entities arguments: None, the empty dict, a dict without symptoms,
\* and dicts with an empty list, plain symptoms and a symptom that is a keyword
EngineEntities ==
    {NoneDict, <<>>, [drug |-> "Aspirin"],
     Entities("Aspirin", <<>>, "regex"),
     Entities("Aspirin", <<"Rash", "Headache">>, "llm"),
     Entities("Aspirin", <<"stroke">>, "llm")}

\* the inputs on which evaluate_escalation raises: ml_prediction None has no
\* get (line 156), and a None probability fails in max or in the product
\* (lines 171 and 174)
EvaluateEscalationRaises(ml_prediction) ==
    \/ IsNone(ml_prediction)
    \/ Get(ml_prediction, "serious_probability", 500) = NoProbability

EvaluateEscalationCall ==
    /\ call = NoCall
    /\ \E ml_prediction \in EngineMlPredictions, adverse_event \in EngineEvents,
          entities \in EngineEntities :
          call' = [op |-> "evaluate_escalation", ml_prediction |-> ml_prediction,
                   drugname |-> "Aspirin", adverse_event |-> adverse_event,
                   entities |-> entities,
                   raised |-> EvaluateEscalationRaises(ml_prediction),
                   result |-> IF EvaluateEscalationRaises(ml_prediction) THEN NoneDict
                              ELSE evaluate_escalation(ml_prediction, "Aspirin",
                                                       adverse_event, entities)]
    /\ UNCHANGED <<auditSchema, run, db, coll, pdf, auditLog, index, req, accepted, bf, now>>

\* the words the texts given to calculate_keyword_score are made of: keywords
\* of weight 10, 8 and 7, one of them in upper case, and a word that is none
KeywordWords ==
    {Chars("death"), <<"D", "I", "E", "D">>, Chars("icu"), Chars("shock"), Chars("rash")}

\* the texts of up to MaxWords words, the empty text among them
KeywordTexts ==
    UNION {{JoinWith(Space, ws) : ws \in [1..n -> KeywordWords]} : n \in 0..MaxWords}

CalculateKeywordScoreCall ==
    /\ call = NoCall
    /\ \E text \in KeywordTexts :
          call' = [op |-> "calculate_keyword_score", text |-> text,
                   result |-> calculate_keyword_score(text)]
    /\ UNCHANGED <<auditSchema, run, db, coll, pdf, auditLog, index, req, accepted, bf, now>>

\* calculate_keyword_score on a text b and on a part a of it
CalculateKeywordScorePair ==
    /\ call = NoCall
    /\ \E b \in KeywordTexts : \E i \in 1..(Len(b) + 1) : \E j \in (i - 1)..Len(b) :
          call' = [op |-> "calculate_keyword_score twice", a |-> SubSeq(b, i, j), b |-> b,
                   result_a |-> calculate_keyword_score(SubSeq(b, i, j)),
                   result_b |-> calculate_keyword_score(b)]
    /\ UNCHANGED <<auditSchema, run, db, coll, pdf, auditLog, index, req, accepted, bf, now>>

\* the probabilities of the paired evaluations, in steps of 0.05
PairProbabilities == {50 * i : i \in 0..20}

\* evaluate_escalation on each of the paired inputs
PairEvaluation ==
    [p \in PairProbabilities, e \in EngineEvents |->
        evaluate_escalation([serious_probability |-> p], "Aspirin", e, <<>>)]

\* evaluate_escalation on two inputs of which the second has the larger (or
\* the same) ml_probability and the larger (or the same) keyword score
EvaluateEscalationPair ==
    /\ call = NoCall
    /\ \E p1 \in PairProbabilities, p2 \in PairProbabilities, e1 \in EngineEvents, e2 \in EngineEvents :
          /\ p1 <= p2
          /\ PairEvaluation[p1, e1].keyword_score <= PairEvaluation[p2, e2].keyword_score
          /\ call' = [op |-> "evaluate_escalation twice",
                      result_1 |-> PairEvaluation[p1, e1], result_2 |-> PairEvaluation[p2, e2]]
    /\ UNCHANGED <<auditSchema, run, db, coll, pdf, auditLog, index, req, accepted, bf, now>>

NextEngine ==
    \/ DetermineRiskLevelCall
    \/ EvaluateEscalationCall
    \/ CalculateKeywordScoreCall
    \/ CalculateKeywordScorePair
    \/ EvaluateEscalationPair
    \/ Return

SpecEngine == Init /\ [][NextEngine]_vars

\* ------------------------------------------ the audit log over several days
\* Records written at different times of different days, and get_audit_logs
\* called with date filters. The timestamp of a row is the one the column
\* default gives it when the INSERT runs: UTC, in whole seconds.
MaxDay == 2

\* the times of day at which a record is written: the first second, midday
\* and the last second
TimesOfDay == {0, 43200, LAST_SECOND_OF_DAY}

ClockTimes == {day * SECONDS_PER_DAY + s : day \in 0..MaxDay, s \in TimesOfDay}

\* time passes between two calls
Tick ==
    /\ call = NoCall
    /\ \E t \in ClockTimes : t > now /\ now' = t
    /\ UNCHANGED <<auditSchema, run, db, coll, pdf, auditLog, index, req, accepted, bf, call>>

\* log_processing of a case at the present time
CallLogProcessingNow ==
    /\ call = NoCall
    /\ \E c \in {c \in Cases : c.adverse_event = "Patient DIED"} :
          LogProcessingCall(LogArgs(accepted + 1, c.drugname, c.adverse_event, c.ml_result,
                                    c.entities, CaseEscalation[c], 0), "none", "none")

\* start_date and end_date: each absent or a day
DateFilters ==
    {[AuditFilter0 EXCEPT !.start_date = s, !.end_date = e] :
        s \in {NoDate} \cup 0..MaxDay, e \in {NoDate} \cup 0..MaxDay}

CallGetAuditLogsByDate ==
    /\ call = NoCall
    /\ \E f \in DateFilters : \E order \in Rankings(MatchingIds(auditLog, f)) :
          GetAuditLogsCall(f, order)

NextAudit ==
    \/ Tick
    \/ CallLogProcessingNow
    \/ CallGetAuditLogsByDate
    \/ Return

SpecAudit == Init /\ [][NextAudit]_vars

\* ----------------------------------------------------------- the classifier
\* predict_single and predict_batch of classifier.py. The state of the model
\* is an input of each call: whether it is loaded, whether its files can be
\* loaded, and the probability it gives each text.

\* the override list of the classifier, each keyword as its characters
CLASSIFIER_SERIOUS_KEYWORDS ==
    << <<"h", "o", "s", "p", "i", "t", "a", "l">>,
       <<"h", "o", "s", "p", "i", "t", "a", "l", "i", "z", "e", "d">>,
       <<"h", "o", "s", "p", "i", "t", "a", "l", "i", "s", "e", "d">>,
       <<"a", "d", "m", "i", "t", "t", "e", "d">>,
       <<"a", "d", "m", "i", "s", "s", "i", "o", "n">>,
       <<"i", "c", "u">>,
       <<"i", "n", "t", "e", "n", "s", "i", "v", "e", " ", "c", "a", "r", "e">>,
       <<"c", "r", "i", "t", "i", "c", "a", "l", " ", "c", "a", "r", "e">>,
       <<"c", "c", "u">>,
       <<"d", "e", "a", "t", "h">>,
       <<"d", "i", "e", "d">>,
       <<"f", "a", "t", "a", "l">>,
       <<"e", "x", "p", "i", "r", "e", "d">>,
       <<"m", "o", "r", "t", "a", "l", "i", "t", "y">>,
       <<"l", "i", "f", "e", " ", "t", "h", "r", "e", "a", "t", "e", "n", "i", "n", "g">>,
       <<"l", "i", "f", "e", "-", "t", "h", "r", "e", "a", "t", "e", "n", "i", "n", "g">>,
       <<"c", "a", "r", "d", "i", "a", "c", " ", "a", "r", "r", "e", "s", "t">>,
       <<"r", "e", "s", "p", "i", "r", "a", "t", "o", "r", "y", " ", "a", "r", "r", "e", "s", "t">>,
       <<"s", "h", "o", "c", "k">>,
       <<"s", "e", "p", "t", "i", "c", " ", "s", "h", "o", "c", "k">>,
       <<"a", "n", "a", "p", "h", "y", "l", "a", "x", "i", "s">>,
       <<"g", "a", "s", "t", "r", "o", "i", "n", "t", "e", "s", "t", "i", "n", "a", "l", " ", "b", "l", "e", "e", "d", "i", "n", "g">>,
       <<"g", "i", " ", "b", "l", "e", "e", "d", "i", "n", "g">>,
       <<"g", "i", " ", "b", "l", "e", "e", "d">>,
       <<"m", "e", "l", "e", "n", "a">>,
       <<"b", "l", "a", "c", "k", " ", "t", "a", "r", "r", "y", " ", "s", "t", "o", "o", "l", "s">>,
       <<"h", "e", "m", "a", "t", "e", "m", "e", "s", "i", "s">>,
       <<"v", "o", "m", "i", "t", "i", "n", "g", " ", "b", "l", "o", "o", "d">>,
       <<"h", "e", "m", "o", "r", "r", "h", "a", "g", "e">>,
       <<"h", "a", "e", "m", "o", "r", "r", "h", "a", "g", "e">>,
       <<"b", "l", "e", "e", "d", "i", "n", "g", " ", "r", "e", "q", "u", "i", "r", "i", "n", "g", " ", "t", "r", "a", "n", "s", "f", "u", "s", "i", "o", "n">>,
       <<"b", "l", "o", "o", "d", " ", "t", "r", "a", "n", "s", "f", "u", "s", "i", "o", "n">>,
       <<"t", "r", "a", "n", "s", "f", "u", "s", "i", "o", "n">>,
       <<"h", "e", "m", "a", "t", "u", "r", "i", "a">>,
       <<"b", "l", "o", "o", "d", " ", "i", "n", " ", "u", "r", "i", "n", "e">>,
       <<"h", "e", "m", "o", "p", "t", "y", "s", "i", "s">>,
       <<"c", "o", "u", "g", "h", "i", "n", "g", " ", "u", "p", " ", "b", "l", "o", "o", "d">>,
       <<"r", "e", "c", "t", "a", "l", " ", "b", "l", "e", "e", "d", "i", "n", "g">>,
       <<"i", "n", "t", "r", "a", "c", "r", "a", "n", "i", "a", "l", " ", "h", "e", "m", "o", "r", "r", "h", "a", "g", "e">>,
       <<"i", "n", "t", "r", "a", "c", "r", "a", "n", "i", "a", "l", " ", "h", "a", "e", "m", "o", "r", "r", "h", "a", "g", "e">>,
       <<"b", "r", "a", "i", "n", " ", "b", "l", "e", "e", "d">>,
       <<"c", "e", "r", "e", "b", "r", "a", "l", " ", "h", "e", "m", "o", "r", "r", "h", "a", "g", "e">>,
       <<"s", "t", "r", "o", "k", "e">>,
       <<"c", "v", "a">>,
       <<"s", "u", "b", "a", "r", "a", "c", "h", "n", "o", "i", "d", " ", "h", "e", "m", "o", "r", "r", "h", "a", "g", "e">>,
       <<"m", "y", "o", "c", "a", "r", "d", "i", "a", "l", " ", "i", "n", "f", "a", "r", "c", "t", "i", "o", "n">>,
       <<"h", "e", "a", "r", "t", " ", "a", "t", "t", "a", "c", "k">>,
       <<"v", "e", "n", "t", "r", "i", "c", "u", "l", "a", "r", " ", "f", "i", "b", "r", "i", "l", "l", "a", "t", "i", "o", "n">>,
       <<"v", "e", "n", "t", "r", "i", "c", "u", "l", "a", "r", " ", "t", "a", "c", "h", "y", "c", "a", "r", "d", "i", "a">>,
       <<"c", "a", "r", "d", "i", "a", "c", " ", "a", "r", "r", "h", "y", "t", "h", "m", "i", "a">>,
       <<"a", "s", "y", "s", "t", "o", "l", "e">>,
       <<"a", "c", "u", "t", "e", " ", "r", "e", "n", "a", "l", " ", "f", "a", "i", "l", "u", "r", "e">>,
       <<"k", "i", "d", "n", "e", "y", " ", "f", "a", "i", "l", "u", "r", "e">>,
       <<"a", "c", "u", "t", "e", " ", "l", "i", "v", "e", "r", " ", "f", "a", "i", "l", "u", "r", "e">>,
       <<"h", "e", "p", "a", "t", "i", "c", " ", "f", "a", "i", "l", "u", "r", "e">>,
       <<"r", "e", "s", "p", "i", "r", "a", "t", "o", "r", "y", " ", "f", "a", "i", "l", "u", "r", "e">>,
       <<"v", "e", "n", "t", "i", "l", "a", "t", "o", "r">>,
       <<"i", "n", "t", "u", "b", "a", "t", "e", "d">>,
       <<"a", "n", "a", "p", "h", "y", "l", "a", "c", "t", "i", "c", " ", "s", "h", "o", "c", "k">>,
       <<"s", "t", "e", "v", "e", "n", "s", "-", "j", "o", "h", "n", "s", "o", "n", " ", "s", "y", "n", "d", "r", "o", "m", "e">>,
       <<"s", "j", "s">>,
       <<"t", "o", "x", "i", "c", " ", "e", "p", "i", "d", "e", "r", "m", "a", "l", " ", "n", "e", "c", "r", "o", "l", "y", "s", "i", "s">>,
       <<"t", "e", "n">>,
       <<"c", "o", "n", "g", "e", "n", "i", "t", "a", "l", " ", "a", "n", "o", "m", "a", "l", "y">>,
       <<"b", "i", "r", "t", "h", " ", "d", "e", "f", "e", "c", "t">>,
       <<"t", "e", "r", "a", "t", "o", "g", "e", "n", "i", "c">>,
       <<"p", "e", "r", "m", "a", "n", "e", "n", "t", " ", "d", "i", "s", "a", "b", "i", "l", "i", "t", "y">>,
       <<"p", "a", "r", "a", "l", "y", "s", "i", "s">>,
       <<"b", "l", "i", "n", "d", "n", "e", "s", "s">>,
       <<"c", "o", "m", "a">>,
       <<"e", "m", "e", "r", "g", "e", "n", "c", "y", " ", "s", "u", "r", "g", "e", "r", "y">>,
       <<"u", "r", "g", "e", "n", "t", " ", "s", "u", "r", "g", "e", "r", "y">>,
       <<"i", "n", "t", "u", "b", "a", "t", "i", "o", "n">>,
       <<"m", "e", "c", "h", "a", "n", "i", "c", "a", "l", " ", "v", "e", "n", "t", "i", "l", "a", "t", "i", "o", "n">>,
       <<"s", "e", "v", "e", "r", "e", " ", "a", "n", "e", "m", "i", "a">>,
       <<"h", "e", "m", "o", "g", "l", "o", "b", "i", "n", " ", "d", "r", "o", "p">>,
       <<"c", "o", "a", "g", "u", "l", "o", "p", "a", "t", "h", "y">>,
       <<"o", "v", "e", "r", "d", "o", "s", "e">>,
       <<"t", "o", "x", "i", "c", "i", "t", "y">> >>

SERIOUS_THRESHOLD == 300

rule_based_serious_override(text) ==
    \E i \in DOMAIN CLASSIFIER_SERIOUS_KEYWORDS :
        Contains(Lower(text), CLASSIFIER_SERIOUS_KEYWORDS[i])

\* the dict returned for an overridden text
OverrideResult ==
    [prediction |-> "Serious", serious_probability |-> 1000, non_serious_probability |-> 0,
     confidence |-> 1000, reason |-> "Rule-based override: high-risk keyword detected"]

\* the dict returned from the probability the model gives
ThresholdResult(serious_prob) ==
    [prediction |-> IF serious_prob >= SERIOUS_THRESHOLD THEN "Serious" ELSE "Non-Serious",
     serious_probability |-> serious_prob, non_serious_probability |-> 1000 - serious_prob,
     confidence |-> Max(serious_prob, 1000 - serious_prob), reason |-> "ML classifier"]

\* is_model_loaded() or load_model()
ModelAvailable(m) == m.loaded \/ m.files

predict_single(m, text) ==
    IF ~ModelAvailable(m) THEN [raised |-> TRUE, result |-> NoneDict]
    ELSE IF rule_based_serious_override(text) THEN [raised |-> FALSE, result |-> OverrideResult]
    ELSE [raised |-> FALSE, result |-> ThresholdResult(m.proba[text])]

predict_batch(m, texts) ==
    IF ~ModelAvailable(m) THEN [raised |-> TRUE, result |-> NoneDict]
    ELSE [raised |-> FALSE,
          result |-> [i \in DOMAIN texts |->
                         IF rule_based_serious_override(texts[i]) THEN OverrideResult
                         ELSE ThresholdResult(m.proba[texts[i]])]]

\* the texts given to the classifier: two with a keyword of the override
\* list (one in upper case), two without
ClassifierTexts ==
    {Chars("Patient DIED"), Chars("icu"), Chars("mild headache"), Chars("suicide attempt")}

\* the probabilities a model gives: below and at the threshold
ModelProbabilities == {100, 300}

\* the states of the model
ModelStates ==
    [loaded : BOOLEAN, files : BOOLEAN, proba : [ClassifierTexts -> ModelProbabilities]]

MaxBatch == 2

PredictSingleCall ==
    /\ call = NoCall
    /\ \E m \in ModelStates, text \in ClassifierTexts :
          call' = [op |-> "predict_single", model |-> m, text |-> text,
                   ret |-> predict_single(m, text)]
    /\ UNCHANGED <<auditSchema, run, db, coll, pdf, auditLog, index, req, accepted, bf, now>>

PredictBatchCall ==
    /\ call = NoCall
    /\ \E m \in ModelStates, n \in 0..MaxBatch : \E texts \in [1..n -> ClassifierTexts] :
          call' = [op |-> "predict_batch", model |-> m, texts |-> texts,
                   ret |-> predict_batch(m, texts)]
    /\ UNCHANGED <<auditSchema, run, db, coll, pdf, auditLog, index, req, accepted, bf, now>>

NextClassifier ==
    \/ PredictSingleCall
    \/ PredictBatchCall
    \/ Return

SpecClassifier == Init /\ [][NextClassifier]_vars

\* ------------------------------------------------------ document retrieval
\* embed_and_store_pdf and retrieve_context of rag_service.py on the
\* collection pdf_documents. A text is the sequence of its words, as
\* normalize_text and split leave them; a chunk is the words it joins.
CHUNK_SIZE == 500
CHUNK_OVERLAP == 50

\* chunk_text: one chunk of up to CHUNK_SIZE words from every start
\* 0, CHUNK_SIZE - CHUNK_OVERLAP, ... below the number of words
chunk_text(words) ==
    LET step == CHUNK_SIZE - CHUNK_OVERLAP
        n == (Len(words) + step - 1) \div step
    IN  [k \in 1..n |->
            Joined(" ", SubSeq(words, (k - 1) * step + 1,
                               Min(Len(words), (k - 1) * step + CHUNK_SIZE)))]

\* f"{report_id}_chunk_{i}"
ChunkId(report_id, i) == <<report_id, i>>

\* the document and metadata stored for chunk i
PdfEntry(report_id, chunks, i) ==
    [document |-> chunks[i + 1],
     metadata |-> [report_id |-> report_id, chunk_index |-> i, total_chunks |-> Len(chunks)]]

\* what collection.add does with an id the collection already holds: it
\* raises, or it keeps the stored entry and adds the others
DuplicatePolicies == {"raise", "skip"}

embed_and_store_pdf(store, words, report_id, onDuplicate) ==
    LET chunks == chunk_text(words)
        ids == {ChunkId(report_id, i) : i \in 0..(Len(chunks) - 1)}
    IN  IF chunks = <<>> THEN [raised |-> FALSE, ret |-> 0, store |-> store]
        ELSE IF ids \cap DOMAIN store # {} /\ onDuplicate = "raise"
        THEN [raised |-> TRUE, ret |-> 0, store |-> store]
        ELSE [raised |-> FALSE, ret |-> Len(chunks),
              store |-> [id \in DOMAIN store \cup ids |->
                            IF id \in DOMAIN store THEN store[id]
                            ELSE PdfEntry(report_id, chunks, id[2])]]

\* retrieve_context whose query carries no where filter
retrieve_context_NoWhere(store, ranking, report_id, top_k) ==
    LET ids == Prefix(ranking, top_k)
    IN  [documents |-> [i \in DOMAIN ids |-> store[ids[i]].document],
         metadatas |-> [i \in DOMAIN ids |-> store[ids[i]].metadata]]

\* retrieve_context: the top_k nearest entries among those whose metadata
\* carries the report_id; ranking is the order of the whole collection by
\* distance to the query
retrieve_context(store, ranking, report_id, top_k) ==
    LET ids == Prefix(SelectSeq(ranking, LAMBDA id : store[id].metadata.report_id = report_id),
                      top_k)
    IN  [documents |-> [i \in DOMAIN ids |-> store[ids[i]].document],
         metadatas |-> [i \in DOMAIN ids |-> store[ids[i]].metadata]]

\* the texts of the uploaded documents: empty, two short ones, and one long
\* enough for a second chunk
PdfTexts ==
    {<<>>, <<"rash">>, <<"fever", "rash">>,
     [i \in 1..(CHUNK_SIZE - CHUNK_OVERLAP + 1) |-> IF i = 1 THEN "onset" ELSE "pain"]}

EmbedAndStorePdfCall ==
    /\ call = NoCall
    /\ \E words \in PdfTexts, report_id \in ReportIds, onDuplicate \in DuplicatePolicies :
          LET r == embed_and_store_pdf(pdf, words, report_id, onDuplicate)
          IN  /\ pdf' = r.store
              /\ call' = [op |-> "embed_and_store_pdf", report_id |-> report_id,
                          raised |-> r.raised, ret |-> r.ret]
    /\ UNCHANGED <<auditSchema, run, db, coll, auditLog, index, req, accepted, bf, now>>

\* the query texts
PdfQueries == {"rash", "mild headache"}

RetrieveContextCall ==
    /\ call = NoCall
    /\ \E ranking \in Rankings(DOMAIN pdf) :
          \E query \in PdfQueries, report_id \in ReportIds, top_k \in 1..(MaxTopK + 1) :
              call' = [op |-> "retrieve_context", query |-> query, report_id |-> report_id,
                       top_k |-> top_k,
                       result |-> retrieve_context(pdf, ranking, report_id, top_k)]
    /\ UNCHANGED <<auditSchema, run, db, coll, pdf, auditLog, index, req, accepted, bf, now>>

NextRag ==
    \/ EmbedAndStorePdfCall
    \/ RetrieveContextCall
    \/ Return

SpecRag == Init /\ [][NextRag]_vars

\* ---------------------------------------- first calls at the same time
NextLazyInit ==
    \/ \E w \in Workers, op \in CollectionOps : EnterOp(w, op)
    \/ \E w \in Workers : TestHandle(w)
    \/ \E w \in Workers : ClientGetCollection(w)
    \/ \E w \in Workers : ClientCreateCollection(w)
    \/ \E w \in Workers : UseCollection(w)

SpecLazyInit == Init /\ [][NextLazyInit]_vars

\* ------------------------------------------ writers and readers together
\* Every connection runs in its own thread or process: each writer that has
\* a statement to execute executes it, and waiting takes time.
\* get_audit_logs() by a reader while writers run
ReadAuditLog ==
    /\ call = NoCall
    /\ ReaderMayProceed(db.lock)
    /\ \E order \in Rankings(MatchingIds(auditLog, AuditFilter0)) :
          /\ NewestFirst(auditLog, order)
          /\ call' = [op |-> "get_audit_logs", filters |-> AuditFilter0,
                      result |-> get_audit_logs(auditLog, AuditFilter0, order),
                      during_write |-> db.lock # "none"]
    /\ UNCHANGED <<auditSchema, run, db, coll, pdf, auditLog, index, req, accepted, bf, now>>

NextDb ==
    \/ \E w \in Workers : StartWrite(w)
    \/ \E w \in Workers : ExecuteInsert(w)
    \/ \E w \in Workers : BusyWait(w)
    \/ \E w \in Workers : CommitInsert(w)
    \/ \E w \in Workers, vecFault \in VecFaults : IndexAndReturn(w, vecFault)
    \/ ReadAuditLog
    \/ Return

SpecDb == Init /\ [][NextDb]_vars /\ \A w \in Workers : WF_vars(WriterStep(w))

\* ------------------------------------------ a run among silent services
\* the services a run calls for a case, in the order of the statements:
\* RxNorm, drug information, entity extraction, the audit insert, after a
\* committed insert the embedding and the upsert, for HIGH and CRITICAL the
\* e-mail server when e-mail is configured, and for a Serious, escalated
\* case the embedding and the query
RunCalls(schema, c, smtp_configured) ==
    <<"rxnorm", "dailymed", "ollama", "sqlite">>
    \o (IF TimestampConstraintFails(schema) THEN <<>> ELSE <<"embedding", "chroma">>)
    \o (IF EmailNotification(CaseEscalation[c].risk_level).attempted /\ smtp_configured
        THEN <<"smtp">> ELSE <<>>)
    \o (IF c.ml_result.prediction = "Serious" /\ CaseEscalation[c].should_escalate
        THEN <<"embedding", "chroma">> ELSE <<>>)

CurrentCalls == RunCalls(auditSchema, run.case, run.smtp_configured)

StartRun ==
    /\ run.pc \in {"idle", "returned"}
    /\ \E c \in Cases, silent \in SUBSET OptionalCollaborators, smtp_configured \in BOOLEAN :
          run' = [IdleRun EXCEPT !.pc = "calling", !.case = c, !.silent = silent,
                                 !.smtp_configured = smtp_configured, !.pos = 1]
    /\ UNCHANGED <<auditSchema, db, coll, pdf, auditLog, index, req, accepted, bf, now, call>>

\* the service called answers (or fails at once) and the run goes on
CollaboratorAnswers ==
    /\ run.pc = "calling"
    /\ run.pos <= Len(CurrentCalls)
    /\ CurrentCalls[run.pos] \notin run.silent
    /\ run' = [run EXCEPT !.pos = @ + 1]
    /\ UNCHANGED <<auditSchema, db, coll, pdf, auditLog, index, req, accepted, bf, now, call>>

\* the service called stays silent and the timeout of the call ends it; the
\* function that made the call catches the exception
CallTimesOut ==
    /\ run.pc = "calling"
    /\ run.pos <= Len(CurrentCalls)
    /\ CurrentCalls[run.pos] \in run.silent
    /\ HasTimeout(CurrentCalls[run.pos])
    /\ run' = [run EXCEPT !.pos = @ + 1, !.timed_out = @ \cup {CurrentCalls[run.pos]}]
    /\ UNCHANGED <<auditSchema, db, coll, pdf, auditLog, index, req, accepted, bf, now, call>>

\* the return statement of process_adverse_event_core
ReturnDecision ==
    /\ run.pc = "calling"
    /\ run.pos > Len(CurrentCalls)
    /\ run' = [run EXCEPT !.pc = "returned", !.decision = CaseEscalation[run.case]]
    /\ UNCHANGED <<auditSchema, db, coll, pdf, auditLog, index, req, accepted, bf, now, call>>

RunStep == CollaboratorAnswers \/ CallTimesOut \/ ReturnDecision

NextTimeouts ==
    \/ StartRun
    \/ CollaboratorAnswers
    \/ CallTimesOut
    \/ ReturnDecision

\* the thread of the request keeps running: what it can do next, it does
SpecTimeouts == Init /\ [][NextTimeouts]_vars /\ WF_vars(RunStep)

\* ============================================================= properties
IsPrefix(s, t) == Len(s) <= Len(t) /\ \A i \in DOMAIN s : s[i] = t[i]

\* the audit log holds a committed row for the report id
Committed(report_id) == \E i \in DOMAIN auditLog : auditLog[i].report_id = report_id

IsResult == call.op = "process_adverse_event_core" /\ call.outcome = "result"

\* C1: a normal result of process_adverse_event_core never carries a
\* report_id for which the audit log holds no record.
C1_ResultImpliesRecorded == IsResult => Committed(call.report_id)

\* C2: log_processing reaches its index upsert only with the audit row of the
\* report committed, a failed insert leaves the report out of the index, and
\* every report_id in the index has a committed audit row, whatever the
\* interleaving with backfill and reset.
C2_IndexedImpliesAudited ==
    /\ \A w \in Workers : req[w].pc = "log_index" => Committed(req[w].report_id)
    /\ \A w \in Workers : req[w].log_ret = "False" => req[w].report_id \notin DOMAIN index
    /\ \A r \in DOMAIN index : Committed(r)

C2_Witness ==
    /\ \E r \in DOMAIN index : Committed(r)
    /\ \E w \in Workers : req[w].log_ret = "False"
    /\ bf.pc = "done"

IsLogCall == call.op = "log_processing"

\* the audit insert of the recorded log_processing call went through
InsertSucceeded ==
    /\ call.dbFault = "none"
    /\ ~ArgsMalformed(call.args)
    /\ ~TimestampConstraintFails(auditSchema)

\* C3: when the audit insert succeeds and the index upsert fails,
\* log_processing returns True without raising and the row it committed is
\* the last row of the audit log, as inserted.
C3_IndexFailureKeepsAudit ==
    (IsLogCall /\ InsertSucceeded /\ call.vecFault # "none") =>
        /\ call.ret = TRUE
        /\ call.raised = FALSE
        /\ auditLog # <<>>
        /\ auditLog[Len(auditLog)] =
               AuditRow(SubSeq(auditLog, 1, Len(auditLog) - 1), now, call.args)

C3_Witness ==
    /\ IsLogCall /\ InsertSucceeded /\ call.vecFault # "none"
    /\ call.ret = TRUE
    /\ call.args.report_id \notin DOMAIN index

\* C4: log_processing never raises, and when its audit insert fails it
\* returns False and leaves the audit log and the index as they were.
C4_NeverRaises ==
    [][(call.op = "none" /\ call'.op = "log_processing") =>
          /\ call'.raised = FALSE
          /\ (call'.dbFault # "none" \/ ArgsMalformed(call'.args)
                 \/ TimestampConstraintFails(auditSchema)) =>
                (call'.ret = FALSE /\ auditLog' = auditLog /\ index' = index)]_vars

C4_Witness ==
    /\ IsLogCall /\ ArgsMalformed(call.args) /\ call.dbFault = "none"
    /\ auditSchema = "with_default"
    /\ call.ret = FALSE /\ call.raised = FALSE
    /\ auditLog # <<>>

\* the row read back equals the arguments of the call, column by column
RowMatchesArgs(row, args) ==
    /\ row.report_id = args.report_id
    /\ row.drugname = args.drugname
    /\ row.adverse_event = args.adverse_event
    /\ row.ml_prediction = args.ml_prediction.prediction
    /\ row.ml_probability = args.ml_prediction.serious_probability
    /\ row.extracted_drug = args.entities.drug
    /\ JsonLoads(row.extracted_symptoms) = args.entities.symptoms
    /\ row.escalation_decision = EscalationDecision(args.escalation_result)
    /\ row.risk_level = args.escalation_result.risk_level
    /\ row.final_score = args.escalation_result.final_score
    /\ JsonLoads(row.triggered_keywords) = args.escalation_result.triggered_keywords
    /\ row.explanation = args.escalation_result.explanation
    /\ row.processing_time_ms = args.processing_time_ms

\* C5: on the table init_database creates, log_processing returns True and
\* get_audit_by_report_id then returns a row equal to the arguments.
C5_RoundTrip ==
    (IsLogCall /\ auditSchema = "init_database" /\ ~ArgsMalformed(call.args)) =>
        /\ call.ret = TRUE
        /\ LET got == get_audit_by_report_id(auditLog, call.args.report_id)
           IN  got # <<>> /\ RowMatchesArgs(got[1], call.args)

\* C6: the audit log only grows, by one row at a time: every step keeps the
\* rows committed before, a log_processing call that returns True adds
\* exactly the row of its report, and no other call changes the log.
C6_AppendOnly ==
    [][/\ IsPrefix(auditLog, auditLog')
       /\ IF call.op = "none" /\ call'.op = "log_processing" /\ call'.ret = TRUE
          THEN /\ Len(auditLog') = Len(auditLog) + 1
               /\ auditLog'[Len(auditLog')].report_id = call'.args.report_id
          ELSE auditLog' = auditLog]_vars

C6_Witness ==
    /\ Len(auditLog) >= 2
    /\ call.op = "reset_collection" /\ call.ret = TRUE

IsSearchCall == call.op = "search_similar_events"

\* C7: search_similar_events called with current_report_id = R returns no
\* match whose report_id is R.
C7_NoSelfMatch ==
    (IsSearchCall /\ call.args.current_report_id # NoReportId) =>
        \A i \in DOMAIN call.results : call.results[i].report_id # call.args.current_report_id

\* R is in the index, passes the filter and is the nearest neighbour
C7_Witness ==
    /\ IsSearchCall /\ call.fault = "none"
    /\ call.args.current_report_id \in DOMAIN index
    /\ call.ranking[1] = call.args.current_report_id
    /\ PassesWhere(index[call.args.current_report_id], call.args.escalated_only)
    /\ call.results # <<>>

\* C8: with escalated_only set every returned match is an index entry whose
\* stored decision is ESCALATE.
C8_EscalatedOnly ==
    (IsSearchCall /\ call.args.escalated_only) =>
        \A i \in DOMAIN call.results :
            /\ call.results[i].report_id \in DOMAIN index
            /\ index[call.results[i].report_id].escalation_decision = "ESCALATE"

C8_Witness ==
    /\ IsSearchCall /\ call.args.escalated_only /\ call.fault = "none"
    /\ \E r \in DOMAIN index : index[r].escalation_decision = "NO_ESCALATE"
    /\ call.results # <<>>

\* the ids a query may return: in the index, passing the filter, not excluded
Eligible(q) ==
    {r \in DOMAIN index : PassesWhere(index[r], q.escalated_only) /\ r # q.current_report_id}

\* C9: a search that does not fail returns exactly min(top_k, N) matches,
\* N the number of eligible entries, and they are the nearest eligible
\* entries in the order of the ranking.
C9_ExactlyMinTopK ==
    (IsSearchCall /\ call.fault = "none") =>
        LET nearest == SelectSeq(call.ranking, LAMBDA r : r \in Eligible(call.args))
        IN  /\ Len(call.results) = Min(call.args.top_k, Cardinality(Eligible(call.args)))
            /\ \A i \in DOMAIN call.results : call.results[i].report_id = nearest[i]

\* C10: when the embedding model or the index backend fails during the
\* similarity query, search_similar_events does not raise, the similar
\* events are the empty list and the pipeline returns its result with the
\* escalation decision of the case.
C10_QueryFailureIsEmpty ==
    (call.op = "process_adverse_event_core" /\ "query_fault" \in DOMAIN call
       /\ call.query_fault # "none") =>
        /\ call.outcome = "result"
        /\ call.search_raised = FALSE
        /\ call.similar_events = <<>>
        /\ call.escalation = CaseEscalation[call.case]

C10_Witness ==
    /\ IsResult /\ call.query_made /\ call.query_fault # "none"
    /\ call.report_id \in DOMAIN index
    /\ call.escalation.should_escalate

C12_Banding ==
    call.op = "determine_risk_level" =>
        /\ call.level \in {"LOW", "MEDIUM", "HIGH", "CRITICAL"}
        /\ call.level = "LOW" <=> call.score < 500
        /\ call.level = "MEDIUM" <=> (500 <= call.score /\ call.score < 700)
        /\ call.level = "HIGH" <=> (700 <= call.score /\ call.score < 850)
        /\ call.level = "CRITICAL" <=> 850 <= call.score

C12_Witness ==
    call.op = "determine_risk_level" /\ call.score = 850 /\ call.level = "CRITICAL"

\* an evaluation that returned
IsEvaluation == call.op = "evaluate_escalation" /\ ~call.raised

\* the text the engine scans holds a keyword of at least the given weight
HasKeywordOfWeight(weight) ==
    \E i \in DOMAIN SERIOUS_KEYWORDS :
        /\ SERIOUS_KEYWORDS[i].weight >= weight
        /\ Contains(Lower(CombinedText(call.drugname, call.adverse_event, call.entities)),
                    Chars(SERIOUS_KEYWORDS[i].keyword))

\* C13: when the combined text holds a keyword of weight 8 or more, the
\* keyword score is at least 0.8, final_score is the larger of ml_probability
\* and keyword_score and should_escalate is True, for every ml_probability
\* down to 0.0; with a keyword of weight 10 the keyword score and the final
\* score are 1.0 and the risk level is CRITICAL.
C13_CriticalOverride ==
    IsEvaluation =>
        /\ HasKeywordOfWeight(8) =>
              /\ call.result.keyword_score >= 800
              /\ call.result.final_score =
                    Max(call.result.ml_probability, call.result.keyword_score)
              /\ call.result.should_escalate
        /\ HasKeywordOfWeight(10) =>
              /\ call.result.keyword_score = 1000
              /\ call.result.final_score = 1000
              /\ call.result.risk_level = "CRITICAL"
              /\ call.result.should_escalate

C13_Witness ==
    /\ IsEvaluation /\ HasKeywordOfWeight(8) /\ ~HasKeywordOfWeight(9)
    /\ call.result.ml_probability = 0
    /\ call.result.final_score = 800 /\ call.result.should_escalate

\* C14: when the keyword score is below 0.8, final_score is
\* 0.7 * ml_probability + 0.3 * keyword_score and should_escalate holds
\* exactly when that score is at least 0.6; ml_probability 0.9 without a
\* keyword gives 0.63, MEDIUM, escalated, and ml_probability 0.1 with a
\* keyword of weight 7 gives 0.28, LOW, not escalated.
C14_Blend ==
    (IsEvaluation /\ call.result.keyword_score < 800) =>
        LET r == call.result
            blend == 700 * r.ml_probability + 300 * r.keyword_score
        IN  /\ ~HasKeywordOfWeight(8)
            /\ 1000 * r.final_score = blend
            /\ r.should_escalate <=> blend >= 600 * 1000
            /\ (r.ml_probability = 900 /\ r.keyword_score = 0) =>
                  (r.final_score = 630 /\ r.risk_level = "MEDIUM" /\ r.should_escalate)
            /\ (r.ml_probability = 100 /\ r.keyword_score = 700) =>
                  (r.final_score = 280 /\ r.risk_level = "LOW" /\ ~r.should_escalate)

C14_Witness ==
    /\ IsEvaluation /\ HasKeywordOfWeight(7)
    /\ call.result.ml_probability = 100 /\ call.result.keyword_score = 700
    /\ call.result.final_score = 280 /\ ~call.result.should_escalate

\* the classifier output carries no usable serious_probability: the key is
\* absent, its value is None, or there is no output at all
NoUsableProbability(ml_prediction) ==
    \/ "serious_probability" \notin DOMAIN ml_prediction
    \/ ml_prediction.serious_probability = NoProbability

\* C17: evaluate_escalation does not raise when the classifier output carries
\* no usable serious_probability: it evaluates with ml_probability 0.5 and
\* returns a complete EscalationResult.
C17_MissingProbabilityDefaults ==
    (call.op = "evaluate_escalation" /\ NoUsableProbability(call.ml_prediction)) =>
        /\ ~call.raised
        /\ DOMAIN call.result = {"should_escalate", "final_score", "ml_probability",
                                 "keyword_score", "triggered_keywords", "explanation",
                                 "risk_level"}
        /\ call.result.ml_probability = 500

\* the table positions of the keywords that occur in the lowercased text
Occurring(text) ==
    {i \in DOMAIN SERIOUS_KEYWORDS : Contains(Lower(text), Chars(SERIOUS_KEYWORDS[i].keyword))}

\* the table position of a keyword
TablePosition(keyword) == CHOOSE i \in DOMAIN SERIOUS_KEYWORDS : SERIOUS_KEYWORDS[i].keyword = keyword

\* C15: calculate_keyword_score returns the largest weight among the table
\* keywords occurring in the lowercased text, divided by 10, and 0 when none
\* occurs (the empty text included); triggered holds exactly the occurring
\* keywords, each once, in the order of the table.
C15_KeywordScore ==
    call.op = "calculate_keyword_score" =>
        LET occ == Occurring(call.text)
            triggered == call.result.triggered
        IN  /\ occ = {} => call.result.score = 0
            /\ occ # {} =>
                  /\ \E i \in occ : call.result.score = 100 * SERIOUS_KEYWORDS[i].weight
                  /\ \A i \in occ : call.result.score >= 100 * SERIOUS_KEYWORDS[i].weight
            /\ {triggered[k] : k \in DOMAIN triggered} = {SERIOUS_KEYWORDS[i].keyword : i \in occ}
            /\ Len(triggered) = Cardinality(occ)
            /\ \A k, l \in DOMAIN triggered :
                  k < l => TablePosition(triggered[k]) < TablePosition(triggered[l])
            /\ call.text = <<>> => (call.result.score = 0 /\ triggered = <<>>)

\* a keyword of weight 7 written before one of weight 10, which the table
\* lists first
C15_Witness ==
    /\ call.op = "calculate_keyword_score"
    /\ call.text = Chars("shock") \o Space \o <<"D", "I", "E", "D">>
    /\ call.result.triggered = <<"died", "shock">>
    /\ call.result.score = 1000

\* C16: the keyword score is monotonic: when text a occurs in text b, the
\* score of b is at least the score of a and every keyword triggered by a
\* is triggered by b.
C16_Monotonic ==
    (call.op = "calculate_keyword_score twice" /\ Contains(call.b, call.a)) =>
        /\ call.result_b.score >= call.result_a.score
        /\ \A k \in DOMAIN call.result_a.triggered :
              \E l \in DOMAIN call.result_b.triggered :
                  call.result_b.triggered[l] = call.result_a.triggered[k]

\* the part holds the weight-10 keyword, the whole text a weight-7 keyword
\* after it
C16_Witness ==
    /\ call.op = "calculate_keyword_score twice"
    /\ call.a = Chars("death")
    /\ call.b = Chars("death") \o Space \o Chars("shock")
    /\ call.result_a.score = 1000 /\ call.result_b.score = 1000
    /\ call.result_b.triggered = <<"death", "shock">>

C19_EscalationFanOut ==
    IsResult =>
        /\ call.escalation.should_escalate => (call.alerted /\ call.query_made)
        /\ ~call.escalation.should_escalate => (~call.alerted /\ ~call.query_made)

\* the place of a collaborator in the steps of a result, 0 when it did not run
StepPosition(name) ==
    IF \E i \in DOMAIN call.steps : call.steps[i][1] = name
    THEN CHOOSE i \in DOMAIN call.steps : call.steps[i][1] = name
    ELSE 0

\* the order the steps are to have: validate, classify, extract, evaluate,
\* audit, index, retrieve similar events, notify
StepOrder ==
    <<"lookup_drug_rxnorm", "predict_from_features", "extract_entities", "evaluate_escalation",
      "audit_insert", "index_audit_event", "get_similar_serious_events_vector",
      "trigger_alert", "send_escalation_email">>

\* C20: the steps of every finished run come in the order validate, classify,
\* extract, evaluate, audit, index, retrieve similar events, notify, and the
\* audit record, the index entry, the similarity query and the notification
\* all carry the one report_id of the run.
C20_StepOrder ==
    IsResult =>
        /\ \A a, b \in DOMAIN StepOrder :
              (a < b /\ StepPosition(StepOrder[a]) # 0 /\ StepPosition(StepOrder[b]) # 0)
                 => StepPosition(StepOrder[a]) < StepPosition(StepOrder[b])
        /\ \A i \in DOMAIN call.steps :
              call.steps[i][2] \in {NoReportId, call.report_id}

\* C26: for every ml_probability of [0, 1] and every text, should_escalate
\* holds exactly when final_score >= 0.6, final_score lies in [0, 1], a
\* HIGH or CRITICAL risk level implies should_escalate, should_escalate
\* implies a risk level other than LOW, and so the escalation e-mail (sent
\* for HIGH and CRITICAL) goes out only for a case that is also alerted.
C26_EscalationConsistent ==
    IsEvaluation =>
        LET r == call.result
        IN  /\ r.should_escalate <=> r.final_score >= 600
            /\ 0 <= r.final_score /\ r.final_score <= 1000
            /\ r.risk_level \in {"HIGH", "CRITICAL"} => r.should_escalate
            /\ r.should_escalate => r.risk_level # "LOW"
            /\ EmailNotification(r.risk_level).attempted => r.should_escalate

\* a critical keyword with ml_probability 0.0: the keyword disjunct holds
\* and final_score is at least 0.6 as well
C26_Witness ==
    /\ IsEvaluation /\ call.result.ml_probability = 0
    /\ call.result.keyword_score = 800 /\ call.result.final_score >= 600
    /\ call.result.should_escalate /\ call.result.risk_level = "HIGH"
    /\ EmailNotification(call.result.risk_level).attempted

\* the risk levels in increasing order
RiskRank(level) ==
    CASE level = "LOW" -> 0 [] level = "MEDIUM" -> 1 [] level = "HIGH" -> 2 [] level = "CRITICAL" -> 3

\* C27: final_score is monotonic non-decreasing in both inputs: when neither
\* ml_probability nor the keyword score decreases, final_score and
\* risk_level do not decrease and should_escalate does not turn from True to
\* False, also across the override threshold (keyword score 0.7 to 0.8).
C27_FinalScoreMonotonic ==
    (call # NoCall /\ call.op = "evaluate_escalation twice") =>
        /\ call.result_1.final_score <= call.result_2.final_score
        /\ RiskRank(call.result_1.risk_level) <= RiskRank(call.result_2.risk_level)
        /\ call.result_1.should_escalate => call.result_2.should_escalate

\* the keyword score goes from 0.7 to 0.8 at ml_probability 1.0: the blend
\* gives 0.91 and the override gives 1.0
C27_Witness ==
    /\ call # NoCall /\ call.op = "evaluate_escalation twice"
    /\ call.result_1.keyword_score = 700 /\ call.result_2.keyword_score = 800
    /\ call.result_1.ml_probability = 1000 /\ call.result_2.ml_probability = 1000
    /\ call.result_1.final_score = 910 /\ call.result_2.final_score = 1000

\* C28: the ml_probability stored in the audit record and in the similarity
\* index entry of a case equals the ml_probability the escalation decision
\* was computed from (EscalationResult.ml_probability), also when the
\* classifier output has no serious_probability and the engine used its
\* default.
C28_StoredProbability ==
    (IsLogCall /\ call.ret = TRUE) =>
        LET id == call.args.report_id
            used == call.args.escalation_result.ml_probability
            got == get_audit_by_report_id(auditLog, id)
        IN  /\ got # <<>> /\ got[1].ml_probability = used
            /\ (call.vecFault = "none" /\ id \in DOMAIN index) =>
                   index[id].ml_probability = used

\* C29: after any sequence of log_processing and backfill runs, every entry
\* of the similarity index carries the drug name, risk level, escalation
\* decision, symptom list and ML probability that log_processing recorded
\* for its report_id, so backfill leaves the content of an entry that
\* log_processing indexed as it was.
C29_IndexAgreesWithAudit ==
    \A r \in DOMAIN index :
        LET got == get_audit_by_report_id(auditLog, r)
        IN  /\ got # <<>>
            /\ index[r].drugname = got[1].drugname
            /\ index[r].risk_level = got[1].risk_level
            /\ index[r].escalation_decision = got[1].escalation_decision
            /\ index[r].symptoms = got[1].extracted_symptoms
            /\ index[r].ml_probability = got[1].ml_probability

\* the day a timestamp falls on
DayOf(timestamp) == timestamp[2] \div SECONDS_PER_DAY

\* the rows of the audit log whose day lies between the two dates of the
\* filter, each end included when given
RowsInRange(f) ==
    {auditLog[i] : i \in {i \in DOMAIN auditLog :
        /\ f.start_date # NoDate => f.start_date <= DayOf(auditLog[i].timestamp)
        /\ f.end_date # NoDate => DayOf(auditLog[i].timestamp) <= f.end_date}}

IsDateQuery ==
    /\ call.op = "get_audit_logs"
    /\ call.filters.start_date # NoDate \/ call.filters.end_date # NoDate

IsOverride(ret) ==
    /\ ~ret.raised
    /\ ret.result.prediction = "Serious"
    /\ ret.result.serious_probability = 1000
    /\ ret.result.confidence = 1000

\* C25: whenever the text contains a keyword of the classifier's override
\* list, predict_single and predict_batch return Serious with probability
\* 1.0 and confidence 1.0 for it, whatever the state of the model, and
\* predict_batch returns for every position what predict_single gives for
\* that text.
C25_OverrideGate ==
    /\ (call.op = "predict_single" /\ rule_based_serious_override(call.text)) =>
           IsOverride(call.ret)
    /\ call.op = "predict_batch" =>
           \A i \in DOMAIN call.texts :
               /\ rule_based_serious_override(call.texts[i]) =>
                      /\ ~call.ret.raised
                      /\ IsOverride([raised |-> FALSE, result |-> call.ret.result[i]])
               /\ ~call.ret.raised =>
                      [raised |-> FALSE, result |-> call.ret.result[i]] =
                          predict_single(call.model, call.texts[i])

\* the entries of the collection stored under the report id
StoredUnder(report_id) ==
    {pdf[id] : id \in {id \in DOMAIN pdf : id[1] = report_id}}

\* C21: after any sequence of embed_and_store_pdf calls for different
\* report_ids, retrieve_context for report_id R returns only chunks stored
\* under R, never a chunk of another report, for every query and top_k.
C21_CaseIsolation ==
    call.op = "retrieve_context" =>
        LET res == call.result
        IN  /\ Len(res.documents) = Len(res.metadatas)
            /\ \A i \in DOMAIN res.documents :
                   /\ res.metadatas[i].report_id = call.report_id
                   /\ [document |-> res.documents[i], metadata |-> res.metadatas[i]]
                          \in StoredUnder(call.report_id)

\* both reports have chunks in the collection, and a query for report 1 with
\* top_k above the number of its chunks returns its two chunks
C21_Witness ==
    /\ call.op = "retrieve_context" /\ call.report_id = 1 /\ call.top_k = 3
    /\ Len(call.result.documents) = 2
    /\ \E id \in DOMAIN pdf : id[1] = 2

\* C30: when two requests make their first call to get_collection at the same
\* time, exactly one collection is created, both callers obtain a handle
\* to it, and neither caller's upsert or query fails or is lost.
C30_LazyInitSafe ==
    /\ coll.created <= 1
    /\ \A w \in Workers :
           coll.caller[w].pc = "done" =>
               /\ ~coll.caller[w].failed
               /\ coll.caller[w].op = "index_audit_event" => CallerReport(w) \in DOMAIN index

\* the rows of the audit log that carry the report id
RowsOf(report_id) == {i \in DOMAIN auditLog : auditLog[i].report_id = report_id}

\* what holds of the writers and readers in every state: a call that
\* returned True has exactly its one complete row committed, a call that
\* returned False or has not committed has none, no wait exceeds the
\* timeout, a read returns committed rows only, and a read is possible
\* while the write lock is held
WritersConsistent ==
    /\ \A w \in Workers :
           LET wr == db.writer[w]
           IN  /\ wr.ret = "True" =>
                      /\ Cardinality(RowsOf(wr.report_id)) = 1
                      /\ \A i \in RowsOf(wr.report_id) :
                             /\ auditLog[i] = wr.pending
                             /\ RowMatchesArgs(auditLog[i], WriterArgs(wr.report_id))
               /\ (wr.ret = "False" \/ wr.pc \in {"insert", "commit"}) =>
                      RowsOf(wr.report_id) = {}
               /\ wr.waited <= BUSY_TIMEOUT
    /\ (call.op = "get_audit_logs" /\ "during_write" \in DOMAIN call) =>
           \A i \in DOMAIN call.result : \E j \in DOMAIN auditLog : auditLog[j] = call.result[i]
    /\ (call = NoCall /\ db.lock # "none") => ENABLED ReadAuditLog

\* C22: for any interleaving of concurrent log_processing calls with distinct
\* report_ids and concurrent audit reads, each write call either returns True
\* with exactly its one complete record committed, or returns False with no
\* record of it after a bounded lock wait; no committed record is lost or
\* partially visible, no writer blocks forever, and readers are not blocked
\* by a write in progress.
C22_ConcurrentWrites ==
    /\ []WritersConsistent
    /\ [][IsPrefix(auditLog, auditLog')]_vars
    /\ \A w \in Workers : (db.writer[w].pc = "insert") ~> (db.writer[w].pc = "done")

\* one call committed its row and returned True, the other waited for the
\* write lock until the timeout and returned False
C22_Witness ==
    /\ db.writer["w1"].pc = "done" /\ db.writer["w1"].ret = "True"
    /\ db.writer["w2"].pc = "done" /\ db.writer["w2"].ret = "False"
    /\ db.writer["w2"].waited = BUSY_TIMEOUT
    /\ Len(auditLog) = 1

\* C23: the processing pipeline always terminates: whichever optional
\* collaborators never answer, every call to one of them is cut off by a
\* timeout and process_adverse_event_core eventually returns the escalation
\* decision.
C23_AlwaysReturns ==
    (run.pc = "calling") ~> (run.pc = "returned" /\ run.decision = CaseEscalation[run.case])
====
